---- MODULE Spec2Model ----
(***************************************************************************)
(* Clock-in / clock-out protocol of the Discord attendance bot.            *)
(*                                                                         *)
(* The model follows the document-scan revision (src/src/index.ts and the  *)
(* second SheetsService of src/src/sheets-service.ts): the spreadsheet is  *)
(* the only record of open sessions.  Every awaited Sheets call is one     *)
(* atomic step on the shared ledger; the Discord calls of one report are   *)
(* folded into one step because they touch only the command's own          *)
(* acknowledgment.  Instants are seconds since the epoch (the code uses    *)
(* milliseconds; no decision of the protocol depends on the sub-second     *)
(* part), backoff delays are milliseconds.                                 *)
(***************************************************************************)
EXTENDS Integers, Sequences, FiniteSets, TLC

(***************************************************************************)
(* Program constants                                                       *)
(***************************************************************************)
maxRetries == 3
BackoffBaseMs == 1000
HorizonHours == 24
JstOffsetHours == 9
MinuteSec == 60
HourSec == 3600
DaySec == 86400
JanuaryDays == 31
FebruaryDays == 28

(***************************************************************************)
(* Bounds of the model                                                     *)
(***************************************************************************)
MaxCmds == 2
MaxFaults == 1
\* Sheets calls followed within one attempt of the retry loop
MaxCalls == 3
\* seconds a response is followed while it does not arrive
MaxWaitSec == 11

Procs == 1..MaxCmds
Users == {"u1", "u2"}
Channels == {"c1"}

(***************************************************************************)
(* Clock.  The environment's clock readings are drawn from a short list of *)
(* instants around the UTC month change 1970-02-01T00:00:00Z, which is     *)
(* 09:00 JST.                                                              *)
(***************************************************************************)
FebStart == JanuaryDays * DaySec
MarStart == (JanuaryDays + FebruaryDays) * DaySec

Timeline ==
  << FebStart - DaySec - 1,     \* 01-31 08:59:59 JST
     FebStart - DaySec + 90,    \* 01-31 09:01:30 JST
     FebStart - 1,              \* 02-01 08:59:59 JST, the last second of January in UTC
     FebStart + 1,              \* 02-01 09:00:01 JST, February in UTC
     FebStart + DaySec + HourSec >>

(***************************************************************************)
(* Time helpers (utils.ts, SheetsService)                                  *)
(***************************************************************************)
\* new Date().toISOString().slice(0, 7): the UTC calendar month of an instant
CurrentMonth(t) ==
  IF t < FebStart THEN "1970-01" ELSE IF t < MarStart THEN "1970-02" ELSE "1970-03"

Months == {"1970-01", "1970-02", "1970-03"}

NaN == -99999

IsDigit(c) == c \in {"0", "1", "2", "3", "4", "5", "6", "7", "8", "9"}

DigitVal(c) ==
  CASE c = "0" -> 0 [] c = "1" -> 1 [] c = "2" -> 2 [] c = "3" -> 3 [] c = "4" -> 4
    [] c = "5" -> 5 [] c = "6" -> 6 [] c = "7" -> 7 [] c = "8" -> 8 [] c = "9" -> 9

RECURSIVE DigitsValue(_, _)
\* value of the longest prefix of digits of s, continuing from acc
DigitsValue(s, acc) ==
  IF s = <<>> \/ ~IsDigit(Head(s)) THEN acc
  ELSE DigitsValue(Tail(s), acc * 10 + DigitVal(Head(s)))

RECURSIVE SkipSpaces(_)
SkipSpaces(s) == IF s # <<>> /\ Head(s) = " " THEN SkipSpaces(Tail(s)) ELSE s

\* parseInt(s, 10): leading blanks, an optional sign, then the digits up to
\* the first other character; NaN when no digit is there
ParseInt(s) ==
  LET t == SkipSpaces(s)
      neg == t # <<>> /\ Head(t) = "-"
      u == IF t # <<>> /\ Head(t) \in {"-", "+"} THEN Tail(t) ELSE t
  IN IF u = <<>> \/ ~IsDigit(Head(u)) THEN NaN
     ELSE IF neg THEN 0 - DigitsValue(u, 0) ELSE DigitsValue(u, 0)

RECURSIVE SplitColon(_)
\* timeString.split(":")
SplitColon(s) ==
  IF \A i \in 1..Len(s) : s[i] # ":" THEN << s >>
  ELSE LET k == CHOOSE i \in 1..Len(s) : s[i] = ":" /\ \A j \in 1..(i - 1) : s[j] # ":"
       IN << SubSeq(s, 1, k - 1) >> \o SplitColon(SubSeq(s, k + 1, Len(s)))

NoParse == [ok |-> FALSE, h |-> 0, m |-> 0]

\* the hour and minute parseTimeStringToJST reads from the text
ParseClock(s) ==
  LET parts == SplitColon(s)
      hm == IF Len(parts) > 1
              THEN IF Len(parts) # 2 THEN << NaN, NaN, FALSE >>
                   ELSE << ParseInt(parts[1]), ParseInt(parts[2]), TRUE >>
            ELSE IF Len(s) = 3
              THEN << ParseInt(SubSeq(s, 1, 1)), ParseInt(SubSeq(s, 2, 3)), TRUE >>
            ELSE IF Len(s) = 4
              THEN << ParseInt(SubSeq(s, 1, 2)), ParseInt(SubSeq(s, 3, 4)), TRUE >>
            ELSE << NaN, NaN, FALSE >>
  IN IF ~hm[3] THEN NoParse
     ELSE IF hm[1] = NaN \/ hm[2] = NaN \/ hm[1] < 0 \/ hm[1] > 23 \/ hm[2] < 0 \/ hm[2] > 59
       THEN NoParse
     ELSE [ok |-> TRUE, h |-> hm[1], m |-> hm[2]]

Null == -1

\* parseTimeStringToJST(timeString, base): the instant of h:m on the JST day of base
parseTimeStringToJST(s, base) ==
  LET c == ParseClock(s)
      jst == base + JstOffsetHours * HourSec
      day == jst - (jst % DaySec)
  IN IF ~c.ok THEN Null
     ELSE day + c.h * HourSec + c.m * MinuteSec - JstOffsetHours * HourSec

\* isFutureTime(targetTime), with the clock reading passed in
isFutureTime_Never(t, clock) == FALSE
isFutureTime(t, clock) == t > clock

\* SheetsService.formatDateTimeToJST: "YYYY/MM/DD HH:MM" in Asia/Tokyo, held as
\* the number of the JST wall-clock minute (the seconds are dropped)
formatDateTimeToJST(t) == (t + JstOffsetHours * HourSec) \div MinuteSec

\* parseDateTimeFromJST of such a text: back to the instant of that JST minute
parseDateTimeFromJST(text) == text * MinuteSec - JstOffsetHours * HourSec


(***************************************************************************)
(* The ledger: one sheet per month, a sheet is the list of its rows.       *)
(* Cells: A project, C duration formula, D start text, E end text,         *)
(* F channel_id, G discord_id, H uuid (column B, the user name, takes part *)
(* in no decision and is left out).                                        *)
(***************************************************************************)
EmptyCell == -1
HeaderCell == -2

KINTAI_HEADERS ==
  [A |-> "project_name", C |-> "diff", D |-> HeaderCell, E |-> HeaderCell,
   F |-> "channel_id", G |-> "discord_id", H |-> 0]

NoSheet == [exists |-> FALSE, rows |-> <<>>]

\* the value KV.get resolves to for a key that holds nothing
NoRecord == [startTime |-> -1, uuid |-> 0, putAt |-> 0]

\* no request in flight: the client holds the access token of the stored
\* configuration, which Google accepts
ApiIdle ==
  [pc |-> "idle", attempt |-> 0, site |-> "", retryCount |-> 0, accessToken |-> "stored",
   configToken |-> "stored", given |-> "stored", status |-> "", fetches |-> 0,
   refreshes |-> 0, calls |-> 0, waited |-> 0,
   storedOk |-> TRUE, freshOk |-> TRUE, refreshOk |-> TRUE]

\* no parser call made
NoText == [date |-> 0, time |-> <<>>]
ParseIdle == [pc |-> "idle", text |-> <<>>, fn |-> "", out |-> -1, shown |-> NoText]

\* no /setup or /reset interaction received
AdmIdle ==
  [pc |-> "idle", kind |-> "", member |-> FALSE, roles |-> FALSE, permissions |-> 0,
   owner |-> FALSE, hadConfig |-> FALSE, link |-> FALSE, result |-> ""]

VARIABLES
  now,            \* index of the current clock reading in Timeline
  sheets,         \* the spreadsheet: month -> [exists, rows]
  configured,     \* the guild has a server configuration in KV
  cmd,            \* per command: its interaction and the handler's locals
  ack,            \* per command: state of the deferred response (@original)
  msgs,           \* per command: the messages the user was shown, in order
  waits,          \* per command: the backoff delays slept so far (ms)
  faults,         \* Sheets and Discord API calls that failed so far
  limits,         \* the run's budget: commands issued, calls that may fail
  kv,             \* KINTAI_DISCORD_KV: key -> the open-session record put for it
  api,            \* one Sheets API request of SheetsService.makeApiRequest
  parse,          \* one call of a time parser and of the formatter on its result
  adm             \* one /setup or /reset interaction and its handler's position

vars == << now, sheets, configured, cmd, ack, msgs, waits, faults, limits, kv, api, parse, adm >>

Clock == Timeline[now]

Idle ==
  [kind |-> "none", user |-> "", channel |-> "", time |-> <<>>, pc |-> "idle",
   attempt |-> 0, t |-> Null, month |-> "", rid |-> 0, row |-> 0,
   astart |-> EmptyCell, rep |-> "", result |-> "", doneAt |-> 0,
   seq |-> FALSE, hit |-> FALSE, sfail |-> 0, writes |-> 0, todo |-> "",
   chk |-> 0]

\* the customTimeString values tried: absent, a valid HH:MM, and a malformed one
TimeInputs == { <<>>, << "0", "9", ":", "0", "0" >>, << "9", "x" >> }

Init ==
  /\ now = 1
  /\ sheets = [m \in Months |-> NoSheet]
  /\ configured \in BOOLEAN
  /\ cmd = [p \in Procs |-> Idle]
  /\ ack = [p \in Procs |-> "none"]
  /\ msgs = [p \in Procs |-> <<>>]
  /\ waits = [p \in Procs |-> <<>>]
  /\ faults = 0
  /\ limits = [cmds |-> MaxCmds, faults |-> MaxFaults]
  /\ kv = [k \in Users \X Channels |-> NoRecord]
  /\ api = ApiIdle
  /\ parse = ParseIdle
  /\ adm = AdmIdle

(***************************************************************************)
(* Environment                                                             *)
(***************************************************************************)
\* the longest sleep of the retry loop, in seconds
MaxBackoffSec == (BackoffBaseMs * (maxRetries - 1)) \div 1000

\* the clock moves on between commands, and by no more than a backoff lasts
\* while a handler sleeps in one
Tick ==
  /\ now < Len(Timeline)
  /\ \/ \A p \in Procs : cmd[p].pc \in {"idle", "done"}
     \/ /\ \E p \in Procs : cmd[p].pc = "backoff"
        /\ Timeline[now + 1] - Timeline[now] <= MaxBackoffSec
  /\ now' = now + 1
  /\ UNCHANGED << sheets, configured, cmd, ack, msgs, waits, faults, limits, kv, api, parse, adm >>

\* a call may fail (network error, 5xx, timeout) while the run's budget lasts
SheetMayFail == faults < limits.faults
DiscordMayFail == faults < limits.faults

(***************************************************************************)
(* POST /api/interactions: the deferred response is returned and the       *)
(* handler is scheduled with waitUntil.                                    *)
(***************************************************************************)
\* the state of @original once c.json(deferredResponse) is returned; in the
\* variant the route would answer only after the handler
DeferredChannelMessageWithSource_NotYet == "none"
DeferredChannelMessageWithSource == "pending"

Interaction(p, kind, u, c, ts) ==
  /\ cmd[p].kind = "none"
  /\ \A q \in Procs : q < p => cmd[q].kind # "none"
  /\ p <= limits.cmds
  /\ p = 1 => u = "u1"
  /\ cmd' = [cmd EXCEPT ![p] = [Idle EXCEPT !.kind = kind, !.user = u, !.channel = c,
                                  !.time = ts, !.pc = "begin", !.attempt = 1,
                                  !.seq = \A q \in Procs : cmd[q].pc \in {"idle", "done"}]]
  /\ ack' = [ack EXCEPT ![p] = DeferredChannelMessageWithSource]
  /\ UNCHANGED << now, sheets, configured, msgs, waits, faults, limits, kv, api, parse, adm >>

(***************************************************************************)
(* Control flow shared by both handlers                                    *)
(***************************************************************************)
\* the catch block without its attempt === maxRetries branch
Throw_AlwaysBackoff(p) == "backoff"

\* an exception inside the try block of attempt cmd[p].attempt
Throw(p) == IF cmd[p].attempt = maxRetries THEN "final" ELSE "backoff"

\* go to the early-return report of class r
ToReport(p, r) == [cmd[p] EXCEPT !.pc = "report", !.rep = r]

\* the handler returned: locals are dead
Finish(p, res) ==
  [cmd[p] EXCEPT !.pc = "done", !.result = res, !.doneAt = now,
                 !.month = "", !.rid = 0, !.row = 0, !.rep = "", !.chk = 0]

\* crypto.randomUUID(): a value no other call returns
randomUUID(p) == p * 10 + cmd[p].attempt


(***************************************************************************)
(* Ledger scans (SheetsService).  JavaScript index i of values is index    *)
(* i + 1 here; every scan starts at i = 1, skipping the first row.         *)
(***************************************************************************)
\* rows a scan of values visits, as sheet row numbers (targetRowIndex = i + 1)
ScanRange(values) == 2..Len(values)

\* the same scan without the 24-hour test
ActiveSessionRow_NoHorizon(values, u, c, clock) ==
  LET hits == { i \in ScanRange(values) :
                  /\ values[i].G = u /\ values[i].F = c
                  /\ values[i].E = EmptyCell /\ values[i].D # EmptyCell }
  IN IF hits = {} THEN 0 ELSE CHOOSE i \in hits : \A j \in hits : i <= j

\* checkActiveWorkSession, the loop over values: the first row of the key with
\* an empty end time whose start lies within the last 24 hours; 0 when none
ActiveSessionRow(values, u, c, clock) ==
  LET hit(i) == /\ values[i].G = u
                /\ values[i].F = c
                /\ values[i].E = EmptyCell
                /\ values[i].D # EmptyCell
                /\ clock - parseDateTimeFromJST(values[i].D) <= HorizonHours * HourSec
      hits == { i \in ScanRange(values) : hit(i) }
  IN IF hits = {} THEN 0 ELSE CHOOSE i \in hits : \A j \in hits : i <= j

\* the same scan matching the channel only
ActiveRecordRow_AnyUser(values, u, c) ==
  LET hits == { i \in ScanRange(values) : values[i].F = c /\ values[i].E = EmptyCell }
  IN IF hits = {} THEN 0 ELSE CHOOSE i \in hits : \A j \in hits : i <= j

\* getActiveWorkRecord, the loop over values: the first row of the key with an
\* empty end time; 0 when none
ActiveRecordRow(values, u, c) ==
  LET hits == { i \in ScanRange(values) :
                  values[i].G = u /\ values[i].F = c /\ values[i].E = EmptyCell }
  IN IF hits = {} THEN 0 ELSE CHOOSE i \in hits : \A j \in hits : i <= j

\* recordStartTime, the loop that finds the appended row by its uuid; -1 when none
FindAppendedRow(values, rid) ==
  LET hits == { i \in ScanRange(values) : values[i].H = rid }
  IN IF hits = {} THEN -1 ELSE CHOOSE i \in hits : \A j \in hits : i <= j

\* recordEndTime, the loop that finds the open row by its uuid; -1 when none
FindOpenRow(values, rid) ==
  LET hits == { i \in ScanRange(values) : values[i].H = rid /\ values[i].E = EmptyCell }
  IN IF hits = {} THEN -1 ELSE CHOOSE i \in hits : \A j \in hits : i <= j

\* updateRange of one cell: the values of row i with column col set; in the
\* variant the call removes the row
updateRange_DeleteRow(values, i, col, v) ==
  SubSeq(values, 1, i - 1) \o SubSeq(values, i + 1, Len(values))
updateRange(values, i, col, v) == [values EXCEPT ![i][col] = v]

\* the row recordStartTime appends
StartRow(p) ==
  [A |-> cmd[p].channel, C |-> "", D |-> formatDateTimeToJST(cmd[p].t), E |-> EmptyCell,
   F |-> cmd[p].channel, G |-> cmd[p].user, H |-> cmd[p].rid]

(***************************************************************************)
(* handleStartCommandWithRetry                                             *)
(***************************************************************************)
\* top of the loop body: time handling and the server configuration checks
StartAttempt(p) ==
  /\ cmd[p].kind = "start" /\ cmd[p].pc = "begin"
  /\ LET parsed == parseTimeStringToJST(cmd[p].time, Clock)
     IN cmd' = [cmd EXCEPT ![p] =
          IF cmd[p].time # <<>> /\ parsed = Null THEN ToReport(p, "ParseError")
          ELSE IF cmd[p].time # <<>> /\ isFutureTime(parsed, Clock)
            THEN ToReport(p, "FutureTimeRejected")
          ELSE IF ~configured THEN ToReport(p, "ConfigurationMissing")
          ELSE [cmd[p] EXCEPT !.pc = "chk_info",
                              !.t = IF cmd[p].time # <<>> THEN parsed ELSE Clock,
                              !.month = CurrentMonth(Clock)]]
  /\ UNCHANGED << now, sheets, configured, ack, msgs, waits, faults, limits, kv, api, parse, adm >>

\* the handler's branch on activeSessionCheck.error: the report and return; in
\* the variant the error is ignored and the attempt goes on to recordStartTime
AfterCheckError_Proceeds(p) == [cmd[p] EXCEPT !.pc = "rec_info", !.month = CurrentMonth(Clock)]
AfterCheckError(p) == ToReport(p, "CheckFailed")

\* the check returned hasActiveSession: false without an error
CheckPassed(p) ==
  [cmd[p] EXCEPT !.pc = "rec_info", !.month = CurrentMonth(Clock), !.chk = cmd[p].attempt]

\* checkActiveWorkSession: getSpreadsheetInfo
CheckInfo(p) ==
  /\ cmd[p].pc = "chk_info"
  /\ \/ /\ SheetMayFail
        /\ faults' = faults + 1
        /\ cmd' = [cmd EXCEPT ![p] = [AfterCheckError(p) EXCEPT !.hit = TRUE, !.sfail = @ + 1]]
     \/ /\ UNCHANGED faults
        /\ cmd' = [cmd EXCEPT ![p] =
             IF sheets[cmd[p].month].exists
               THEN [cmd[p] EXCEPT !.pc = "chk_range"]
               ELSE CheckPassed(p)]
  /\ UNCHANGED << now, sheets, configured, ack, msgs, waits, limits, kv, api, parse, adm >>

\* checkActiveWorkSession: getRange and the scan
CheckScan(p) ==
  /\ cmd[p].pc = "chk_range"
  /\ \/ /\ SheetMayFail
        /\ faults' = faults + 1
        /\ cmd' = [cmd EXCEPT ![p] = [AfterCheckError(p) EXCEPT !.hit = TRUE, !.sfail = @ + 1]]
     \/ /\ UNCHANGED faults
        /\ LET values == sheets[cmd[p].month].rows
               i == ActiveSessionRow(values, cmd[p].user, cmd[p].channel, Clock)
           IN cmd' = [cmd EXCEPT ![p] =
                IF i # 0
                  THEN [ToReport(p, "AlreadyOpen") EXCEPT !.astart = values[i].D]
                  ELSE CheckPassed(p)]
  /\ UNCHANGED << now, sheets, configured, ack, msgs, waits, limits, kv, api, parse, adm >>

\* recordStartTime: getSpreadsheetInfo, does the month's sheet exist
RecordStartInfo(p) ==
  /\ cmd[p].pc = "rec_info"
  /\ \/ /\ SheetMayFail
        /\ faults' = faults + 1
        /\ cmd' = [cmd EXCEPT ![p].pc = Throw(p), ![p].hit = TRUE, ![p].sfail = @ + 1]
     \/ /\ UNCHANGED faults
        /\ cmd' = [cmd EXCEPT ![p] =
             IF sheets[cmd[p].month].exists
               THEN [cmd[p] EXCEPT !.pc = "rec_append", !.rid = randomUUID(p)]
               ELSE [cmd[p] EXCEPT !.pc = "rec_addsheet"]]
  /\ UNCHANGED << now, sheets, configured, ack, msgs, waits, limits, kv, api, parse, adm >>

\* createMonthlySheet: batchUpdate addSheet (a second sheet of the same title
\* is refused by the API)
CreateMonthlySheet(p) ==
  /\ cmd[p].pc = "rec_addsheet"
  /\ \/ /\ SheetMayFail
        /\ faults' = faults + 1
        /\ cmd' = [cmd EXCEPT ![p].pc = Throw(p), ![p].hit = TRUE, ![p].sfail = @ + 1]
        /\ UNCHANGED sheets
     \/ /\ sheets[cmd[p].month].exists
        /\ cmd' = [cmd EXCEPT ![p].pc = Throw(p)]
        /\ UNCHANGED << sheets, faults >>
     \/ /\ ~sheets[cmd[p].month].exists
        /\ sheets' = [sheets EXCEPT ![cmd[p].month] = [exists |-> TRUE, rows |-> <<>>]]
        /\ cmd' = [cmd EXCEPT ![p].pc = "rec_header", ![p].writes = @ + 1]
        /\ UNCHANGED faults
  /\ UNCHANGED << now, configured, ack, msgs, waits, limits, kv, api, parse, adm >>

\* createMonthlySheet: appendRow of KINTAI_HEADERS
AppendHeader(p) ==
  /\ cmd[p].pc = "rec_header"
  /\ \/ /\ SheetMayFail
        /\ faults' = faults + 1
        /\ cmd' = [cmd EXCEPT ![p].pc = Throw(p), ![p].hit = TRUE, ![p].sfail = @ + 1]
        /\ UNCHANGED sheets
     \/ /\ sheets' = [sheets EXCEPT ![cmd[p].month].rows = Append(@, KINTAI_HEADERS)]
        /\ cmd' = [cmd EXCEPT ![p].pc = "rec_append", ![p].rid = randomUUID(p),
                              ![p].writes = @ + 1]
        /\ UNCHANGED faults
  /\ UNCHANGED << now, configured, ack, msgs, waits, limits, kv, api, parse, adm >>

\* recordStartTime: appendRow of the session row
AppendStartRow(p) ==
  /\ cmd[p].pc = "rec_append"
  /\ \/ /\ SheetMayFail
        /\ faults' = faults + 1
        /\ cmd' = [cmd EXCEPT ![p].pc = Throw(p), ![p].hit = TRUE, ![p].sfail = @ + 1]
        /\ UNCHANGED sheets
     \/ /\ sheets' = [sheets EXCEPT ![cmd[p].month].rows = Append(@, StartRow(p))]
        /\ cmd' = [cmd EXCEPT ![p].pc = "rec_find", ![p].writes = @ + 1]
        /\ UNCHANGED faults
  /\ UNCHANGED << now, configured, ack, msgs, waits, limits, kv, api, parse, adm >>

\* recordStartTime: getRange and the search for the appended row
FindStartRow(p) ==
  /\ cmd[p].pc = "rec_find"
  /\ \/ /\ SheetMayFail
        /\ faults' = faults + 1
        /\ cmd' = [cmd EXCEPT ![p].pc = Throw(p), ![p].hit = TRUE, ![p].sfail = @ + 1]
     \/ /\ UNCHANGED faults
        /\ LET i == FindAppendedRow(sheets[cmd[p].month].rows, cmd[p].rid)
           IN cmd' = [cmd EXCEPT ![p] =
                IF i > 0 THEN [cmd[p] EXCEPT !.pc = "rec_formula", !.row = i]
                         ELSE [cmd[p] EXCEPT !.pc = "edit"]]
  /\ UNCHANGED << now, sheets, configured, ack, msgs, waits, limits, kv, api, parse, adm >>

\* recordStartTime: updateRange of the duration formula in column C
SetFormula(p) ==
  /\ cmd[p].pc = "rec_formula"
  /\ \/ /\ SheetMayFail
        /\ faults' = faults + 1
        /\ cmd' = [cmd EXCEPT ![p].pc = Throw(p), ![p].hit = TRUE, ![p].sfail = @ + 1]
        /\ UNCHANGED sheets
     \/ /\ sheets' = [sheets EXCEPT ![cmd[p].month].rows =
                                       updateRange(@, cmd[p].row, "C", "formula")]
        /\ cmd' = [cmd EXCEPT ![p].pc = "edit", ![p].writes = @ + 1]
        /\ UNCHANGED faults
  /\ UNCHANGED << now, configured, ack, msgs, waits, limits, kv, api, parse, adm >>


(***************************************************************************)
(* Discord calls (DiscordApiService): each throws on a non-2xx response.   *)
(* Once @original is deleted, DELETE and PATCH on it answer 404.           *)
(***************************************************************************)
Message(vis, what) == [vis |-> vis, what |-> what]

\* deleteOriginalResponse followed by createFollowupMessage(..., ephemeral):
\* onOk is the command after both succeeded, onThrow after either threw
\* the variant that reports an error as it reports a success: by editing
\* @original, visible to the channel
DeleteThenFollowup_EditInPlace(p, what, onOk, onThrow) ==
  /\ ack[p] # "deleted"
  /\ ack' = [ack EXCEPT ![p] = "edited"]
  /\ msgs' = [msgs EXCEPT ![p] = Append(@, Message("public", what))]
  /\ cmd' = [cmd EXCEPT ![p] = onOk]
  /\ UNCHANGED faults

DeleteThenFollowup(p, what, onOk, onThrow) ==
  \/ /\ ack[p] = "deleted"
     /\ cmd' = [cmd EXCEPT ![p] = onThrow]
     /\ UNCHANGED << ack, msgs, faults >>
  \/ /\ ack[p] # "deleted" /\ DiscordMayFail
     /\ faults' = faults + 1
     /\ cmd' = [cmd EXCEPT ![p] = [onThrow EXCEPT !.hit = TRUE]]
     /\ UNCHANGED << ack, msgs >>
  \/ /\ ack[p] # "deleted" /\ DiscordMayFail
     /\ faults' = faults + 1
     /\ ack' = [ack EXCEPT ![p] = "deleted"]
     /\ cmd' = [cmd EXCEPT ![p] = [onThrow EXCEPT !.hit = TRUE]]
     /\ UNCHANGED msgs
  \/ /\ ack[p] # "deleted"
     /\ ack' = [ack EXCEPT ![p] = "deleted"]
     /\ msgs' = [msgs EXCEPT ![p] = Append(@, Message("ephemeral", what))]
     /\ cmd' = [cmd EXCEPT ![p] = onOk]
     /\ UNCHANGED faults

\* the early-return reports inside the try block
ReportError(p) ==
  /\ cmd[p].pc = "report"
  /\ DeleteThenFollowup(p, cmd[p].rep, Finish(p, cmd[p].rep),
                        [cmd[p] EXCEPT !.pc = Throw(p)])
  /\ UNCHANGED << now, sheets, configured, waits, limits, kv, api, parse, adm >>

\* editDeferredResponse with the success text
EditDeferred(p) ==
  /\ cmd[p].pc = "edit"
  /\ \/ /\ ack[p] = "deleted"
        /\ cmd' = [cmd EXCEPT ![p].pc = Throw(p)]
        /\ UNCHANGED << ack, msgs, faults >>
     \/ /\ ack[p] # "deleted" /\ DiscordMayFail
        /\ faults' = faults + 1
        /\ cmd' = [cmd EXCEPT ![p].pc = Throw(p), ![p].hit = TRUE]
        /\ UNCHANGED << ack, msgs >>
     \/ /\ ack[p] # "deleted"
        /\ ack' = [ack EXCEPT ![p] = "edited"]
        /\ msgs' = [msgs EXCEPT ![p] = Append(@, Message("public", "Success"))]
        /\ cmd' = [cmd EXCEPT ![p] = Finish(p, "Success")]
        /\ UNCHANGED faults
  /\ UNCHANGED << now, sheets, configured, waits, limits, kv, api, parse, adm >>

\* catch, attempt < maxRetries: setTimeout(1000 * attempt), then the next attempt
Backoff(p) ==
  /\ cmd[p].pc = "backoff"
  /\ waits' = [waits EXCEPT ![p] = Append(@, BackoffBaseMs * cmd[p].attempt)]
  /\ cmd' = [cmd EXCEPT ![p].pc = "begin", ![p].attempt = @ + 1, ![p].t = Null,
                        ![p].month = "", ![p].rid = 0, ![p].row = 0, ![p].rep = "",
                        ![p].astart = EmptyCell, ![p].chk = 0]
  /\ UNCHANGED << now, sheets, configured, ack, msgs, faults, limits, kv, api, parse, adm >>

\* catch, attempt = maxRetries: the failure report; its own throw leaves the handler
FinalReport(p) ==
  /\ cmd[p].pc = "final"
  /\ DeleteThenFollowup(p, "TransientFailureExhausted",
                        Finish(p, "TransientFailureExhausted"),
                        [cmd[p] EXCEPT !.pc = "outer"])
  /\ UNCHANGED << now, sheets, configured, waits, limits, kv, api, parse, adm >>

\* handleSlashCommandDeferred, catch: a report outside any try; if it throws the
\* promise given to waitUntil rejects
OuterCatch(p) ==
  /\ cmd[p].pc = "outer"
  /\ DeleteThenFollowup(p, "ProcessingError", Finish(p, "ProcessingError"),
                        Finish(p, "Unhandled"))
  /\ UNCHANGED << now, sheets, configured, waits, limits, kv, api, parse, adm >>

(***************************************************************************)
(* handleEndCommandWithRetry                                               *)
(***************************************************************************)
\* the comparison with its operands exchanged
isEndBeforeStart_Swapped(endTime, startTime) == startTime < endTime

\* endTime.getTime() < startTime.getTime()
isEndBeforeStart(endTime, startTime) == endTime < startTime

EndAttempt(p) ==
  /\ cmd[p].kind = "end" /\ cmd[p].pc = "begin"
  /\ LET parsed == parseTimeStringToJST(cmd[p].time, Clock)
     IN cmd' = [cmd EXCEPT ![p] =
          IF cmd[p].time # <<>> /\ parsed = Null THEN ToReport(p, "ParseError")
          ELSE IF ~configured THEN ToReport(p, "ConfigurationMissing")
          ELSE [cmd[p] EXCEPT !.pc = "look_info",
                              !.t = IF cmd[p].time # <<>> THEN parsed ELSE Clock,
                              !.month = CurrentMonth(Clock)]]
  /\ UNCHANGED << now, sheets, configured, ack, msgs, waits, faults, limits, kv, api, parse, adm >>

\* getActiveWorkRecord: getSpreadsheetInfo
LookupInfo(p) ==
  /\ cmd[p].pc = "look_info"
  /\ \/ /\ SheetMayFail
        /\ faults' = faults + 1
        /\ cmd' = [cmd EXCEPT ![p] = [ToReport(p, "CheckFailed") EXCEPT !.hit = TRUE, !.sfail = @ + 1]]
     \/ /\ UNCHANGED faults
        /\ cmd' = [cmd EXCEPT ![p] =
             IF sheets[cmd[p].month].exists
               THEN [cmd[p] EXCEPT !.pc = "look_range"]
               ELSE ToReport(p, "NotOpen")]
  /\ UNCHANGED << now, sheets, configured, ack, msgs, waits, limits, kv, api, parse, adm >>

\* getActiveWorkRecord: getRange and the scan, then the end-before-start check
LookupScan(p) ==
  /\ cmd[p].pc = "look_range"
  /\ \/ /\ SheetMayFail
        /\ faults' = faults + 1
        /\ cmd' = [cmd EXCEPT ![p] = [ToReport(p, "CheckFailed") EXCEPT !.hit = TRUE, !.sfail = @ + 1]]
     \/ /\ UNCHANGED faults
        /\ LET values == sheets[cmd[p].month].rows
               i == ActiveRecordRow(values, cmd[p].user, cmd[p].channel)
           IN cmd' = [cmd EXCEPT ![p] =
                IF i = 0 THEN ToReport(p, "NotOpen")
                ELSE IF /\ values[i].D # EmptyCell
                        /\ isEndBeforeStart(cmd[p].t, parseDateTimeFromJST(values[i].D))
                  THEN [ToReport(p, "EndBeforeStart") EXCEPT !.astart = values[i].D]
                ELSE [cmd[p] EXCEPT !.pc = "end_find", !.rid = values[i].H,
                                    !.astart = values[i].D,
                                    !.month = CurrentMonth(Clock)]]
  /\ UNCHANGED << now, sheets, configured, ack, msgs, waits, limits, kv, api, parse, adm >>

\* recordEndTime: getRange of the current month and the search by uuid
FindEndRow(p) ==
  /\ cmd[p].pc = "end_find"
  /\ \/ /\ SheetMayFail
        /\ faults' = faults + 1
        /\ cmd' = [cmd EXCEPT ![p].pc = Throw(p), ![p].hit = TRUE, ![p].sfail = @ + 1]
     \/ /\ UNCHANGED faults
        /\ LET i == IF sheets[cmd[p].month].exists
                      THEN FindOpenRow(sheets[cmd[p].month].rows, cmd[p].rid)
                      ELSE -1
           IN cmd' = [cmd EXCEPT ![p] =
                IF i > 0 THEN [cmd[p] EXCEPT !.pc = "end_write", !.row = i]
                         ELSE [cmd[p] EXCEPT !.pc = Throw(p)]]
  /\ UNCHANGED << now, sheets, configured, ack, msgs, waits, limits, kv, api, parse, adm >>

\* recordEndTime: updateRange of the end-time cell
WriteEndTime(p) ==
  /\ cmd[p].pc = "end_write"
  /\ \/ /\ SheetMayFail
        /\ faults' = faults + 1
        /\ cmd' = [cmd EXCEPT ![p].pc = Throw(p), ![p].hit = TRUE, ![p].sfail = @ + 1]
        /\ UNCHANGED sheets
     \/ /\ sheets' = [sheets EXCEPT ![cmd[p].month].rows =
              updateRange(@, cmd[p].row, "E", formatDateTimeToJST(cmd[p].t))]
        /\ cmd' = [cmd EXCEPT ![p].pc = "end_read", ![p].writes = @ + 1]
        /\ UNCHANGED faults
  /\ UNCHANGED << now, configured, ack, msgs, waits, limits, kv, api, parse, adm >>

\* recordEndTime: getRange of the computed duration cell
ReadWorkHours(p) ==
  /\ cmd[p].pc = "end_read"
  /\ \/ /\ SheetMayFail
        /\ faults' = faults + 1
        /\ cmd' = [cmd EXCEPT ![p].pc = Throw(p), ![p].hit = TRUE, ![p].sfail = @ + 1]
     \/ /\ UNCHANGED faults
        /\ cmd' = [cmd EXCEPT ![p].pc = "edit"]
  /\ UNCHANGED << now, sheets, configured, ack, msgs, waits, limits, kv, api, parse, adm >>

(***************************************************************************)
(* Specification                                                           *)
(***************************************************************************)
Next ==
  \/ Tick
  \/ \E p \in Procs, k \in {"start", "end"}, u \in Users, c \in Channels, ts \in TimeInputs :
       Interaction(p, k, u, c, ts)
  \/ \E p \in Procs : StartAttempt(p)
  \/ \E p \in Procs : CheckInfo(p)
  \/ \E p \in Procs : CheckScan(p)
  \/ \E p \in Procs : RecordStartInfo(p)
  \/ \E p \in Procs : CreateMonthlySheet(p)
  \/ \E p \in Procs : AppendHeader(p)
  \/ \E p \in Procs : AppendStartRow(p)
  \/ \E p \in Procs : FindStartRow(p)
  \/ \E p \in Procs : SetFormula(p)
  \/ \E p \in Procs : EditDeferred(p)
  \/ \E p \in Procs : ReportError(p)
  \/ \E p \in Procs : Backoff(p)
  \/ \E p \in Procs : FinalReport(p)
  \/ \E p \in Procs : OuterCatch(p)
  \/ \E p \in Procs : EndAttempt(p)
  \/ \E p \in Procs : LookupInfo(p)
  \/ \E p \in Procs : LookupScan(p)
  \/ \E p \in Procs : FindEndRow(p)
  \/ \E p \in Procs : WriteEndTime(p)
  \/ \E p \in Procs : ReadWorkHours(p)

Spec == Init /\ [][Next]_vars

\* the row an earlier /start of u1 in c1 left open: recorded at the first clock
\* reading, formula set
EarlierOpenRow ==
  [A |-> "c1", C |-> "formula", D |-> formatDateTimeToJST(Timeline[1]), E |-> EmptyCell,
   F |-> "c1", G |-> "u1", H |-> 1]

\* the state after that /start: a configured guild whose January sheet holds
\* the header and the open row
InitOpen ==
  /\ now = 1
  /\ sheets = [m \in Months |->
                 IF m = CurrentMonth(Timeline[1])
                   THEN [exists |-> TRUE, rows |-> << KINTAI_HEADERS, EarlierOpenRow >>]
                   ELSE NoSheet]
  /\ configured = TRUE
  /\ cmd = [p \in Procs |-> Idle]
  /\ ack = [p \in Procs |-> "none"]
  /\ msgs = [p \in Procs |-> <<>>]
  /\ waits = [p \in Procs |-> <<>>]
  /\ faults = 0
  /\ limits = [cmds |-> MaxCmds, faults |-> MaxFaults]
  /\ kv = [k \in Users \X Channels |-> NoRecord]
  /\ api = ApiIdle
  /\ parse = ParseIdle
  /\ adm = AdmIdle

SpecOpen == InitOpen /\ [][Next]_vars

\* an outage on the first of February: a configured guild in which as many
\* calls may fail as a command has attempts, so that every attempt of one
\* command can fail
InitOutage ==
  /\ now = Len(Timeline) - 1
  /\ sheets = [m \in Months |-> NoSheet]
  /\ configured = TRUE
  /\ cmd = [p \in Procs |-> Idle]
  /\ ack = [p \in Procs |-> "none"]
  /\ msgs = [p \in Procs |-> <<>>]
  /\ waits = [p \in Procs |-> <<>>]
  /\ faults = 0
  /\ limits = [cmds |-> MaxCmds, faults |-> maxRetries]
  /\ kv = [k \in Users \X Channels |-> NoRecord]
  /\ api = ApiIdle
  /\ parse = ParseIdle
  /\ adm = AdmIdle

SpecOutage == InitOutage /\ [][Next]_vars

(***************************************************************************)
(* The handlers with the first revision of utils.ts, the one whose export  *)
(* list src/src/index.ts imports.  Its parseDateTimeFromJST matches only a *)
(* text with seconds; the start cell written by formatDateTimeToJST has    *)
(* none, so the fallback new Date(text) reads it, as local time (UTC).     *)
(***************************************************************************)
\* parseDateTimeFromJST of the first revision applied to a start cell: the
\* instant at which UTC clocks show the wall-clock minute of the text
OldParseDateTimeFromJST(text) == text * MinuteSec

\* checkActiveWorkSession, the loop over values, with that parser
OldActiveSessionRow(values, u, c, clock) ==
  LET hit(i) == /\ values[i].G = u
                /\ values[i].F = c
                /\ values[i].E = EmptyCell
                /\ values[i].D # EmptyCell
                /\ clock - OldParseDateTimeFromJST(values[i].D) <= HorizonHours * HourSec
      hits == { i \in ScanRange(values) : hit(i) }
  IN IF hits = {} THEN 0 ELSE CHOOSE i \in hits : \A j \in hits : i <= j

\* checkActiveWorkSession: getRange and the scan
OldCheckScan(p) ==
  /\ cmd[p].pc = "chk_range"
  /\ \/ /\ SheetMayFail
        /\ faults' = faults + 1
        /\ cmd' = [cmd EXCEPT ![p] = [AfterCheckError(p) EXCEPT !.hit = TRUE, !.sfail = @ + 1]]
     \/ /\ UNCHANGED faults
        /\ LET values == sheets[cmd[p].month].rows
               i == OldActiveSessionRow(values, cmd[p].user, cmd[p].channel, Clock)
           IN cmd' = [cmd EXCEPT ![p] =
                IF i # 0
                  THEN [ToReport(p, "AlreadyOpen") EXCEPT !.astart = values[i].D]
                  ELSE CheckPassed(p)]
  /\ UNCHANGED << now, sheets, configured, ack, msgs, waits, limits, kv, api, parse, adm >>

\* getActiveWorkRecord: getRange and the scan, then the end-before-start check
OldLookupScan(p) ==
  /\ cmd[p].pc = "look_range"
  /\ \/ /\ SheetMayFail
        /\ faults' = faults + 1
        /\ cmd' = [cmd EXCEPT ![p] = [ToReport(p, "CheckFailed") EXCEPT !.hit = TRUE, !.sfail = @ + 1]]
     \/ /\ UNCHANGED faults
        /\ LET values == sheets[cmd[p].month].rows
               i == ActiveRecordRow(values, cmd[p].user, cmd[p].channel)
           IN cmd' = [cmd EXCEPT ![p] =
                IF i = 0 THEN ToReport(p, "NotOpen")
                ELSE IF /\ values[i].D # EmptyCell
                        /\ isEndBeforeStart(cmd[p].t, OldParseDateTimeFromJST(values[i].D))
                  THEN [ToReport(p, "EndBeforeStart") EXCEPT !.astart = values[i].D]
                ELSE [cmd[p] EXCEPT !.pc = "end_find", !.rid = values[i].H,
                                    !.astart = values[i].D,
                                    !.month = CurrentMonth(Clock)]]
  /\ UNCHANGED << now, sheets, configured, ack, msgs, waits, limits, kv, api, parse, adm >>

NextOldUtils ==
  \/ Tick
  \/ \E p \in Procs, k \in {"start", "end"}, u \in Users, c \in Channels, ts \in TimeInputs :
       Interaction(p, k, u, c, ts)
  \/ \E p \in Procs : StartAttempt(p)
  \/ \E p \in Procs : CheckInfo(p)
  \/ \E p \in Procs : OldCheckScan(p)
  \/ \E p \in Procs : RecordStartInfo(p)
  \/ \E p \in Procs : CreateMonthlySheet(p)
  \/ \E p \in Procs : AppendHeader(p)
  \/ \E p \in Procs : AppendStartRow(p)
  \/ \E p \in Procs : FindStartRow(p)
  \/ \E p \in Procs : SetFormula(p)
  \/ \E p \in Procs : EditDeferred(p)
  \/ \E p \in Procs : ReportError(p)
  \/ \E p \in Procs : Backoff(p)
  \/ \E p \in Procs : FinalReport(p)
  \/ \E p \in Procs : OuterCatch(p)
  \/ \E p \in Procs : EndAttempt(p)
  \/ \E p \in Procs : LookupInfo(p)
  \/ \E p \in Procs : OldLookupScan(p)
  \/ \E p \in Procs : FindEndRow(p)
  \/ \E p \in Procs : WriteEndTime(p)
  \/ \E p \in Procs : ReadWorkHours(p)

SpecOldUtils == Init /\ [][NextOldUtils]_vars

(***************************************************************************)
(* The KV-backed handlers: the open session of a key is a record in        *)
(* KINTAI_DISCORD_KV, put after recordStartTime succeeded and deleted      *)
(* after recordEndTime succeeded.  The ledger calls, the reports and the   *)
(* retry loop are the ones above.                                          *)
(***************************************************************************)
\* the lifetime KV.put gives a session record, in seconds
expirationTtl == 86400

kvKey(p) == << cmd[p].user, cmd[p].channel >>

\* KV.get: a record past its expirationTtl is gone
KvGet(k) ==
  IF kv[k].uuid # 0 /\ Clock - kv[k].putAt < expirationTtl THEN kv[k] ELSE NoRecord

KvMayFail == faults < limits.faults

\* what the handler does with startResult: the record is put only when
\* recordStartTime reported success, otherwise the attempt throws
AfterRecordStart_Always(p, success) == "kv_put"
AfterRecordStart(p, success) == IF success THEN "kv_put" ELSE Throw(p)

\* top of the loop body of the start handler: time handling
KvStartAttempt(p) ==
  /\ cmd[p].kind = "start" /\ cmd[p].pc = "begin"
  /\ LET parsed == parseTimeStringToJST(cmd[p].time, Clock)
     IN cmd' = [cmd EXCEPT ![p] =
          IF cmd[p].time # <<>> /\ parsed = Null THEN ToReport(p, "ParseError")
          ELSE IF cmd[p].time # <<>> /\ isFutureTime(parsed, Clock)
            THEN ToReport(p, "FutureTimeRejected")
          ELSE [cmd[p] EXCEPT !.pc = "kv_get",
                              !.t = IF cmd[p].time # <<>> THEN parsed ELSE Clock]]
  /\ UNCHANGED << now, sheets, configured, ack, msgs, waits, faults, limits, kv, api, parse, adm >>

\* start: KV.get(kvKey), the duplicate check
KvGetStart(p) ==
  /\ cmd[p].kind = "start" /\ cmd[p].pc = "kv_get"
  /\ \/ /\ KvMayFail
        /\ faults' = faults + 1
        /\ cmd' = [cmd EXCEPT ![p].pc = Throw(p), ![p].hit = TRUE]
     \/ /\ UNCHANGED faults
        /\ cmd' = [cmd EXCEPT ![p] =
             IF KvGet(kvKey(p)) # NoRecord THEN ToReport(p, "AlreadyOpen")
                                           ELSE [cmd[p] EXCEPT !.pc = "kv_cfg",
                                                               !.chk = cmd[p].attempt]]
  /\ UNCHANGED << now, sheets, configured, ack, msgs, waits, limits, kv, api, parse, adm >>

\* start: hasServerConfig and getServerConfig
KvStartConfig(p) ==
  /\ cmd[p].kind = "start" /\ cmd[p].pc = "kv_cfg"
  /\ cmd' = [cmd EXCEPT ![p] =
       IF ~configured THEN ToReport(p, "ConfigurationMissing")
                      ELSE [cmd[p] EXCEPT !.pc = "rec_info", !.month = CurrentMonth(Clock)]]
  /\ UNCHANGED << now, sheets, configured, ack, msgs, waits, faults, limits, kv, api, parse, adm >>

\* recordStartTime: appendRow of the session row, and the handler's branch
\* on startResult.success
KvAppendStartRow(p) ==
  /\ cmd[p].pc = "rec_append"
  /\ \/ /\ SheetMayFail
        /\ faults' = faults + 1
        /\ cmd' = [cmd EXCEPT ![p].pc = AfterRecordStart(p, FALSE), ![p].hit = TRUE,
                              ![p].sfail = @ + 1]
        /\ UNCHANGED sheets
     \/ /\ sheets' = [sheets EXCEPT ![cmd[p].month].rows = Append(@, StartRow(p))]
        /\ cmd' = [cmd EXCEPT ![p].pc = AfterRecordStart(p, TRUE), ![p].writes = @ + 1]
        /\ UNCHANGED faults
  /\ UNCHANGED << now, configured, ack, msgs, waits, limits, kv, api, parse, adm >>

\* start: KV.put(kvKey, {startTime, uuid: startResult.recordId}, expirationTtl)
KvPut(p) ==
  /\ cmd[p].pc = "kv_put"
  /\ \/ /\ KvMayFail
        /\ faults' = faults + 1
        /\ cmd' = [cmd EXCEPT ![p].pc = Throw(p), ![p].hit = TRUE]
        /\ UNCHANGED kv
     \/ /\ kv' = [kv EXCEPT ![kvKey(p)] =
                    [startTime |-> cmd[p].t, uuid |-> cmd[p].rid, putAt |-> Clock]]
        /\ cmd' = [cmd EXCEPT ![p].pc = "edit"]
        /\ UNCHANGED faults
  /\ UNCHANGED << now, sheets, configured, ack, msgs, waits, limits, api, parse, adm >>

\* top of the loop body of the end handler: time handling
KvEndAttempt(p) ==
  /\ cmd[p].kind = "end" /\ cmd[p].pc = "begin"
  /\ LET parsed == parseTimeStringToJST(cmd[p].time, Clock)
     IN cmd' = [cmd EXCEPT ![p] =
          IF cmd[p].time # <<>> /\ parsed = Null THEN ToReport(p, "ParseError")
          ELSE [cmd[p] EXCEPT !.pc = "kv_look",
                              !.t = IF cmd[p].time # <<>> THEN parsed ELSE Clock]]
  /\ UNCHANGED << now, sheets, configured, ack, msgs, waits, faults, limits, kv, api, parse, adm >>

\* end: KV.get(kvKey), the existence check and the end-before-start check
KvGetEnd(p) ==
  /\ cmd[p].kind = "end" /\ cmd[p].pc = "kv_look"
  /\ \/ /\ KvMayFail
        /\ faults' = faults + 1
        /\ cmd' = [cmd EXCEPT ![p].pc = Throw(p), ![p].hit = TRUE]
     \/ /\ UNCHANGED faults
        /\ LET existingRecord == KvGet(kvKey(p))
           IN cmd' = [cmd EXCEPT ![p] =
                IF existingRecord = NoRecord THEN ToReport(p, "NotOpen")
                ELSE IF cmd[p].t < existingRecord.startTime
                  THEN ToReport(p, "EndBeforeStart")
                ELSE [cmd[p] EXCEPT !.pc = "kv_ecfg", !.rid = existingRecord.uuid]]
  /\ UNCHANGED << now, sheets, configured, ack, msgs, waits, limits, kv, api, parse, adm >>

\* end: getServerConfig
KvEndConfig(p) ==
  /\ cmd[p].kind = "end" /\ cmd[p].pc = "kv_ecfg"
  /\ cmd' = [cmd EXCEPT ![p] =
       IF ~configured THEN ToReport(p, "ConfigurationMissing")
                      ELSE [cmd[p] EXCEPT !.pc = "end_find", !.month = CurrentMonth(Clock)]]
  /\ UNCHANGED << now, sheets, configured, ack, msgs, waits, faults, limits, kv, api, parse, adm >>

\* recordEndTime: updateRange of the end time and of the computed duration
KvWriteEndTime(p) ==
  /\ cmd[p].pc = "end_write"
  /\ \/ /\ SheetMayFail
        /\ faults' = faults + 1
        /\ cmd' = [cmd EXCEPT ![p].pc = Throw(p), ![p].hit = TRUE, ![p].sfail = @ + 1]
        /\ UNCHANGED sheets
     \/ /\ sheets' = [sheets EXCEPT ![cmd[p].month].rows =
              updateRange(@, cmd[p].row, "E", formatDateTimeToJST(cmd[p].t))]
        /\ cmd' = [cmd EXCEPT ![p].pc = "kv_del", ![p].writes = @ + 1]
        /\ UNCHANGED faults
  /\ UNCHANGED << now, configured, ack, msgs, waits, limits, kv, api, parse, adm >>

\* the store after KV.delete(k)
KvDeleted_Kept(k) == kv
KvDeleted(k) == [kv EXCEPT ![k] = NoRecord]

\* end: KV.delete(kvKey)
KvDelete(p) ==
  /\ cmd[p].pc = "kv_del"
  /\ \/ /\ KvMayFail
        /\ faults' = faults + 1
        /\ cmd' = [cmd EXCEPT ![p].pc = Throw(p), ![p].hit = TRUE]
        /\ UNCHANGED kv
     \/ /\ kv' = KvDeleted(kvKey(p))
        /\ cmd' = [cmd EXCEPT ![p].pc = "edit"]
        /\ UNCHANGED faults
  /\ UNCHANGED << now, sheets, configured, ack, msgs, waits, limits, api, parse, adm >>

NextKV ==
  \/ Tick
  \/ \E p \in Procs, k \in {"start", "end"}, u \in Users, c \in Channels, ts \in TimeInputs :
       Interaction(p, k, u, c, ts)
  \/ \E p \in Procs : KvStartAttempt(p)
  \/ \E p \in Procs : KvGetStart(p)
  \/ \E p \in Procs : KvStartConfig(p)
  \/ \E p \in Procs : RecordStartInfo(p)
  \/ \E p \in Procs : CreateMonthlySheet(p)
  \/ \E p \in Procs : AppendHeader(p)
  \/ \E p \in Procs : KvAppendStartRow(p)
  \/ \E p \in Procs : KvPut(p)
  \/ \E p \in Procs : EditDeferred(p)
  \/ \E p \in Procs : ReportError(p)
  \/ \E p \in Procs : Backoff(p)
  \/ \E p \in Procs : FinalReport(p)
  \/ \E p \in Procs : OuterCatch(p)
  \/ \E p \in Procs : KvEndAttempt(p)
  \/ \E p \in Procs : KvGetEnd(p)
  \/ \E p \in Procs : KvEndConfig(p)
  \/ \E p \in Procs : FindEndRow(p)
  \/ \E p \in Procs : KvWriteEndTime(p)
  \/ \E p \in Procs : KvDelete(p)

SpecKV == Init /\ [][NextKV]_vars

(***************************************************************************)
(* SheetsService.makeApiRequest and handleApiResponse: one call of the     *)
(* Sheets API inside an attempt of the retry loop.  The access token is    *)
(* the stored one until OAuthService.refreshTokens stores a fresh one;     *)
(* Google answers 401 to a token it does not accept.                       *)
(***************************************************************************)
\* the timeout GASService gives its request, in milliseconds
timeout == 10000
MsPerSec == 1000

\* the calls a transition makes
CallSites ==
  {"getSpreadsheetInfo", "addSheet", "appendRow", "getRange", "updateFormula",
   "updateEndTime"}

\* every caller hands its guildId on to makeApiRequest, but for the updateRange
\* that sets the duration formula of a new row
PassesGuildId(site) == site # "updateFormula"

Accepted(token) == IF token = "stored" THEN api.storedOk ELSE api.freshOk

\* makeApiRequest, the catch: retry while retryCount < 1
MayRetry(retryCount) == retryCount < 1

mainVars == << now, sheets, configured, cmd, ack, msgs, waits, faults, limits, kv, parse, adm >>

\* an attempt of the retry loop reaches a Sheets call.  The first call of an
\* operation (checkActiveWorkSession, recordStartTime, ...) is made with the
\* serverConfig.access_token the attempt read, a later one with the token the
\* service holds; makeApiRequest starts with retryCount 0
ApiCall(site, first) ==
  /\ api.pc = "idle" /\ api.calls < MaxCalls
  /\ api' = [api EXCEPT !.pc = "fetch", !.attempt = IF @ = 0 THEN 1 ELSE @, !.site = site,
                        !.calls = @ + 1,
                        !.retryCount = 0,
                        !.accessToken = IF first THEN api.given ELSE @,
                        !.status = "", !.fetches = 0]
  /\ UNCHANGED mainVars

\* fetch(url) with getHeaders(): 401 for a token Google does not accept,
\* otherwise the answer or a server error; or the response does not arrive
\* yet.  The request is given no signal and no timer.
ApiFetch ==
  /\ api.pc = "fetch"
  /\ \/ \E answer \in IF Accepted(api.accessToken) THEN {"ok", "error"}
                                                  ELSE {"unauthorized"} :
          api' = [api EXCEPT !.pc = "respond", !.status = answer, !.fetches = @ + 1]
     \/ api' = [api EXCEPT !.pc = "waiting", !.waited = 0, !.fetches = @ + 1]
  /\ UNCHANGED mainVars

\* a second passes while the fetch is awaited
ApiWait ==
  /\ api.pc = "waiting" /\ api.waited < MaxWaitSec
  /\ api' = [api EXCEPT !.waited = @ + 1]
  /\ UNCHANGED mainVars

\* the awaited response arrives
ApiArrive ==
  /\ api.pc = "waiting"
  /\ \E answer \in IF Accepted(api.accessToken) THEN {"ok", "error"}
                                                ELSE {"unauthorized"} :
       api' = [api EXCEPT !.pc = "respond", !.status = answer]
  /\ UNCHANGED mainVars

\* handleApiResponse: response.ok, or 401 with a guildId, or any other error
ApiHandleResponse ==
  /\ api.pc = "respond"
  /\ api' = [api EXCEPT !.pc =
       IF api.status = "ok" THEN "returned"
       ELSE IF api.status = "unauthorized" /\ PassesGuildId(api.site) THEN "refresh"
       ELSE "thrown"]
  /\ UNCHANGED mainVars

\* handleApiResponse, the 401 branch: refreshTokens, getServerConfig, and
\* RETRY_WITH_NEW_TOKEN caught by makeApiRequest
ApiRefresh ==
  /\ api.pc = "refresh"
  /\ api' =
       IF ~api.refreshOk THEN [api EXCEPT !.pc = "thrown", !.refreshes = @ + 1]
       ELSE IF MayRetry(api.retryCount)
         THEN [api EXCEPT !.pc = "fetch", !.retryCount = @ + 1, !.refreshes = @ + 1,
                          !.accessToken = "fresh", !.configToken = "fresh"]
       ELSE [api EXCEPT !.pc = "thrown", !.refreshes = @ + 1,
                        !.accessToken = "fresh", !.configToken = "fresh"]
  /\ UNCHANGED mainVars

\* the call returned: the attempt goes on with its next call
ApiReturn ==
  /\ api.pc = "returned"
  /\ api' = [api EXCEPT !.pc = "idle"]
  /\ UNCHANGED mainVars

\* the call threw: the catch of the retry loop ends the attempt and, short of
\* maxRetries, starts the next one, which reads the configuration again
ApiCatch ==
  /\ api.pc = "thrown"
  /\ api' = IF api.attempt < maxRetries
              THEN [api EXCEPT !.pc = "idle", !.attempt = @ + 1, !.calls = 0,
                               !.given = api.configToken]
              ELSE [api EXCEPT !.pc = "exhausted"]
  /\ UNCHANGED mainVars

\* a configured guild with no command in flight; the stored token may have
\* expired, the refresh token may have been revoked, and the fresh token may
\* be refused too
InitApi ==
  /\ now = 1
  /\ sheets = [m \in Months |-> NoSheet]
  /\ configured = TRUE
  /\ cmd = [p \in Procs |-> Idle]
  /\ ack = [p \in Procs |-> "none"]
  /\ msgs = [p \in Procs |-> <<>>]
  /\ waits = [p \in Procs |-> <<>>]
  /\ faults = 0
  /\ limits = [cmds |-> MaxCmds, faults |-> MaxFaults]
  /\ kv = [k \in Users \X Channels |-> NoRecord]
  /\ \E s, f, r \in BOOLEAN :
       api = [ApiIdle EXCEPT !.storedOk = s, !.freshOk = f, !.refreshOk = r]
  /\ parse = ParseIdle
  /\ adm = AdmIdle

NextApi ==
  \/ \E site \in CallSites, first \in BOOLEAN : ApiCall(site, first)
  \/ ApiFetch
  \/ ApiWait
  \/ ApiArrive
  \/ ApiHandleResponse
  \/ ApiRefresh
  \/ ApiReturn
  \/ ApiCatch

SpecApi == InitApi /\ [][NextApi]_vars

(***************************************************************************)
(* The revision whose /end takes a mandatory todo option: the dispatch in  *)
(* handleSlashCommandDeferred refuses an /end without it before the retry  *)
(* loop is entered.  The handlers are the document-scan ones.              *)
(***************************************************************************)
\* the todo values tried: absent and present
TodoInputs == { "", "note" }

\* !todoString
LacksTodo_Never(todo) == FALSE
LacksTodo(todo) == todo = ""

\* POST /api/interactions and the switch on commandName
InteractionTodo(p, kind, u, c, ts, todo) ==
  /\ cmd[p].kind = "none"
  /\ \A q \in Procs : q < p => cmd[q].kind # "none"
  /\ p <= limits.cmds
  /\ p = 1 => u = "u1"
  /\ kind = "start" => todo = ""
  /\ LET refused == kind = "end" /\ LacksTodo(todo)
     IN cmd' = [cmd EXCEPT ![p] =
          [Idle EXCEPT !.kind = kind, !.user = u, !.channel = c, !.time = ts,
                       !.todo = todo,
                       !.pc = IF refused THEN "todo_report" ELSE "begin",
                       !.attempt = IF refused THEN 0 ELSE 1,
                       !.seq = \A q \in Procs : cmd[q].pc \in {"idle", "done"}]]
  /\ ack' = [ack EXCEPT ![p] = DeferredChannelMessageWithSource]
  /\ UNCHANGED << now, sheets, configured, msgs, waits, faults, limits, kv, api, parse, adm >>

\* case "end", no todo: the report, inside the try of handleSlashCommandDeferred
TodoReport(p) ==
  /\ cmd[p].pc = "todo_report"
  /\ DeleteThenFollowup(p, "ValidationError", Finish(p, "ValidationError"),
                        [cmd[p] EXCEPT !.pc = "outer"])
  /\ UNCHANGED << now, sheets, configured, waits, limits, kv, api, parse, adm >>

NextTodo ==
  \/ Tick
  \/ \E p \in Procs, k \in {"start", "end"}, u \in Users, c \in Channels, ts \in TimeInputs,
        todo \in TodoInputs :
       InteractionTodo(p, k, u, c, ts, todo)
  \/ \E p \in Procs : TodoReport(p)
  \/ \E p \in Procs : StartAttempt(p)
  \/ \E p \in Procs : CheckInfo(p)
  \/ \E p \in Procs : CheckScan(p)
  \/ \E p \in Procs : RecordStartInfo(p)
  \/ \E p \in Procs : CreateMonthlySheet(p)
  \/ \E p \in Procs : AppendHeader(p)
  \/ \E p \in Procs : AppendStartRow(p)
  \/ \E p \in Procs : FindStartRow(p)
  \/ \E p \in Procs : SetFormula(p)
  \/ \E p \in Procs : EditDeferred(p)
  \/ \E p \in Procs : ReportError(p)
  \/ \E p \in Procs : Backoff(p)
  \/ \E p \in Procs : FinalReport(p)
  \/ \E p \in Procs : OuterCatch(p)
  \/ \E p \in Procs : EndAttempt(p)
  \/ \E p \in Procs : LookupInfo(p)
  \/ \E p \in Procs : LookupScan(p)
  \/ \E p \in Procs : FindEndRow(p)
  \/ \E p \in Procs : WriteEndTime(p)
  \/ \E p \in Procs : ReadWorkHours(p)

SpecTodo == Init /\ [][NextTodo]_vars

(***************************************************************************)
(* The oldest revision: DiscordCommandService answers the interaction      *)
(* itself (no deferred response, no retry), keeps the open session of a    *)
(* key in KV and has the ledger written by the Apps Script web app of      *)
(* gas-code.js, one doPost per command.  The script's time zone is JST.    *)
(***************************************************************************)
GasChannels == { "c1", "c2" }

GasKeys == Users \X GasChannels

\* Utilities.formatDate(now, Session.getScriptTimeZone(), "yyyy-MM")
GasSheetName(t) == CurrentMonth(t + JstOffsetHours * HourSec)

\* Utilities.formatDate(t, zone, "yyyy/MM/dd HH:mm:ss"), held as the number
\* of the wall-clock second
GasFormatDate(t) == t + JstOffsetHours * HourSec

\* handleStartWork: newRow
GasStartRow(p) ==
  [A |-> cmd[p].channel, C |-> "", D |-> GasFormatDate(cmd[p].t), E |-> EmptyCell,
   F |-> cmd[p].channel, G |-> cmd[p].user, H |-> randomUUID(p)]

\* spreadsheet.getSheetByName(sheetName) || createMonthlySheet(...): the
\* rows of the month's sheet, its header set when it is created
GasSheetRows(m) == IF sheets[m].exists THEN sheets[m].rows ELSE << KINTAI_HEADERS >>

\* handleEndWork, the loop from the last row down: the latest row of the
\* user with an empty end time; 0 when none
GasTargetRow(values, userId) ==
  LET hits == { i \in ScanRange(values) : values[i].G = userId /\ values[i].E = EmptyCell }
  IN IF hits = {} THEN 0 ELSE CHOOSE i \in hits : \A j \in hits : j <= i

\* the interaction response returned to Discord
GasRespond(p, vis, what) ==
  /\ msgs' = [msgs EXCEPT ![p] = Append(@, Message(vis, what))]
  /\ cmd' = [cmd EXCEPT ![p] = Finish(p, what)]

\* POST /api/interactions with /start or /end
GasInteraction(p, kind, u, c) ==
  /\ cmd[p].kind = "none"
  /\ \A q \in Procs : q < p => cmd[q].kind # "none"
  /\ p <= limits.cmds
  /\ cmd' = [cmd EXCEPT ![p] = [Idle EXCEPT !.kind = kind, !.user = u, !.channel = c,
                                  !.pc = "gas_get", !.attempt = 1,
                                  !.seq = \A q \in Procs : cmd[q].pc \in {"idle", "done"}]]
  /\ UNCHANGED << now, sheets, configured, ack, msgs, waits, faults, limits, kv, api, parse, adm >>

\* kv.get(kvKey) of either handler and the test of the record
GasKvGet(p) ==
  /\ cmd[p].pc = "gas_get"
  /\ \/ /\ KvMayFail
        /\ faults' = faults + 1
        /\ GasRespond(p, "ephemeral", "ProcessingError")
     \/ /\ UNCHANGED faults
        /\ IF cmd[p].kind = "start" /\ KvGet(kvKey(p)) # NoRecord
             THEN GasRespond(p, "ephemeral", "AlreadyOpen")
           ELSE IF cmd[p].kind = "end" /\ KvGet(kvKey(p)) = NoRecord
             THEN GasRespond(p, "ephemeral", "NotOpen")
           ELSE /\ cmd' = [cmd EXCEPT ![p].pc = "gas_call", ![p].t = Clock]
                /\ UNCHANGED msgs
  /\ UNCHANGED << now, sheets, configured, ack, waits, limits, kv, api, parse, adm >>

\* gasService.startWork: the request fails before the script ran, or doPost
\* appends the row and the handler goes on to kv.put
GasStartWork(p) ==
  /\ cmd[p].kind = "start" /\ cmd[p].pc = "gas_call"
  /\ \/ /\ SheetMayFail
        /\ faults' = faults + 1
        /\ GasRespond(p, "ephemeral", "BackendUnavailable")
        /\ UNCHANGED sheets
     \/ /\ LET m == GasSheetName(cmd[p].t)
           IN sheets' = [sheets EXCEPT ![m] =
                [exists |-> TRUE, rows |-> Append(GasSheetRows(m), GasStartRow(p))]]
        /\ cmd' = [cmd EXCEPT ![p].pc = "gas_put", ![p].rid = randomUUID(p),
                              ![p].writes = @ + 1]
        /\ UNCHANGED << faults, msgs >>
  /\ UNCHANGED << now, configured, ack, waits, limits, kv, api, parse, adm >>

\* handleStartCommand: kv.put with a uuid of its own, then the public answer;
\* a throw is answered by the catch
GasKvPut(p) ==
  /\ cmd[p].pc = "gas_put"
  /\ \/ /\ KvMayFail
        /\ faults' = faults + 1
        /\ GasRespond(p, "ephemeral", "ProcessingError")
        /\ UNCHANGED kv
     \/ /\ kv' = [kv EXCEPT ![kvKey(p)] =
                    [startTime |-> Clock, uuid |-> randomUUID(p) + 1, putAt |-> Clock]]
        /\ GasRespond(p, "public", "Success")
        /\ UNCHANGED faults
  /\ UNCHANGED << now, sheets, configured, ack, waits, limits, api, parse, adm >>

\* gasService.endWork: the request fails, or doPost finds no row of the user
\* to end, or it sets the end time of the row it found
GasEndWork(p) ==
  /\ cmd[p].kind = "end" /\ cmd[p].pc = "gas_call"
  /\ LET m == GasSheetName(cmd[p].t)
         values == GasSheetRows(m)
         i == GasTargetRow(values, cmd[p].user)
     IN \/ /\ SheetMayFail
           /\ faults' = faults + 1
           /\ GasRespond(p, "ephemeral", "BackendUnavailable")
           /\ UNCHANGED sheets
        \/ /\ i = 0
           /\ sheets' = [sheets EXCEPT ![m] = [exists |-> TRUE, rows |-> values]]
           /\ GasRespond(p, "ephemeral", "NotOpen")
           /\ UNCHANGED faults
        \/ /\ i > 0
           /\ sheets' = [sheets EXCEPT ![m] =
                [exists |-> TRUE,
                 rows |-> updateRange(updateRange(values, i, "E", GasFormatDate(cmd[p].t)),
                                      i, "C", "hours")]]
           /\ cmd' = [cmd EXCEPT ![p].pc = "gas_del", ![p].rid = values[i].H,
                                 ![p].astart = values[i].D, ![p].writes = @ + 1]
           /\ UNCHANGED << faults, msgs >>
  /\ UNCHANGED << now, configured, ack, waits, limits, kv, api, parse, adm >>

\* handleEndCommand: kv.delete, then the public answer
GasKvDelete(p) ==
  /\ cmd[p].pc = "gas_del"
  /\ \/ /\ KvMayFail
        /\ faults' = faults + 1
        /\ GasRespond(p, "ephemeral", "ProcessingError")
        /\ UNCHANGED kv
     \/ /\ kv' = KvDeleted(kvKey(p))
        /\ GasRespond(p, "public", "Success")
        /\ UNCHANGED faults
  /\ UNCHANGED << now, sheets, configured, ack, waits, limits, api, parse, adm >>

\* the row an earlier /start of user u in channel c left, with uuid h
GasOpenRow(u, c, h) ==
  [A |-> c, C |-> "", D |-> GasFormatDate(Timeline[1]), E |-> EmptyCell,
   F |-> c, G |-> u, H |-> h]

\* the ledgers the run starts from: empty, or after u1 started work in c1
\* and then in c2
GasLedgers ==
  { << >>, << KINTAI_HEADERS, GasOpenRow("u1", "c1", 1), GasOpenRow("u1", "c2", 3) >> }

InitGas ==
  /\ now = 1
  /\ \E rows \in GasLedgers :
       /\ sheets = [m \in Months |->
                      IF rows # << >> /\ m = GasSheetName(Timeline[1])
                        THEN [exists |-> TRUE, rows |-> rows] ELSE NoSheet]
       /\ kv = [k \in GasKeys |->
                  IF rows # << >> /\ k[1] = "u1"
                    THEN [startTime |-> Timeline[1], putAt |-> Timeline[1],
                          uuid |-> IF k[2] = "c1" THEN 2 ELSE 4]
                    ELSE NoRecord]
  /\ configured = TRUE
  /\ cmd = [p \in Procs |-> Idle]
  /\ ack = [p \in Procs |-> "none"]
  /\ msgs = [p \in Procs |-> <<>>]
  /\ waits = [p \in Procs |-> <<>>]
  /\ faults = 0
  /\ limits = [cmds |-> MaxCmds, faults |-> MaxFaults]
  /\ api = ApiIdle
  /\ parse = ParseIdle
  /\ adm = AdmIdle

NextGas ==
  \/ Tick
  \/ \E p \in Procs, k \in {"start", "end"}, u \in Users, c \in GasChannels :
       GasInteraction(p, k, u, c)
  \/ \E p \in Procs : GasKvGet(p)
  \/ \E p \in Procs : GasStartWork(p)
  \/ \E p \in Procs : GasKvPut(p)
  \/ \E p \in Procs : GasEndWork(p)
  \/ \E p \in Procs : GasKvDelete(p)

SpecGas == InitGas /\ [][NextGas]_vars

(***************************************************************************)
(* The time parsers and the formatter of utils.ts as pure functions: one   *)
(* text is drawn, a parser is applied to it at the current clock reading,  *)
(* and the formatter is applied to the instant it returned.  The runtime's *)
(* local time zone is UTC (Cloudflare Workers).                            *)
(***************************************************************************)
MaxLen == 5

TimeChars == { "0", "2", "3", "5", "6", "9", ":", "x" }

\* every text of at most MaxLen of these characters
TimeTexts == UNION { [1..n -> TimeChars] : n \in 0..MaxLen }

\* parseTimeStringWithDate(timeString, undefined): the instant of h:m on the
\* runtime's current date, read as JST; without a text, the current minute
parseTimeStringWithDate(s, clock) ==
  LET c == ParseClock(s)
      day == clock - (clock % DaySec)
  IN IF s = <<>> THEN clock - (clock % MinuteSec)
     ELSE IF ~c.ok THEN Null
     ELSE day + (c.h - JstOffsetHours) * HourSec + c.m * MinuteSec

DigitChar(d) == CHOOSE c \in { "0", "1", "2", "3", "4", "5", "6", "7", "8", "9" } : DigitVal(c) = d

\* String(n).padStart(2, "0")
Pad2(n) == IF n < 10 THEN << "0", DigitChar(n) >> ELSE << DigitChar(n \div 10), DigitChar(n % 10) >>

\* the getUTC* fields of an instant as "<date> HH:MM:SS"; the date is held as
\* the number of the day
UtcFields(t) ==
  LET sec == t % DaySec
  IN [date |-> t \div DaySec,
      time |-> Pad2(sec \div HourSec) \o << ":" >> \o Pad2((sec % HourSec) \div MinuteSec)
               \o << ":" >> \o Pad2(sec % MinuteSec)]

\* the variant that formats the instant without moving it to JST
formatDateToJST_Utc(date) == UtcFields(date)

\* formatDateToJST(date): the UTC fields of date + 9 h
formatDateToJST(date) == UtcFields(date + JstOffsetHours * HourSec)

parseFrame == << sheets, configured, cmd, ack, msgs, waits, faults, limits, kv, api, adm >>

\* a call of parseTimeStringToJST(text) (baseDate absent: new Date())
ParseToJST ==
  /\ parse.pc = "input"
  /\ parse' = [parse EXCEPT !.pc = "parsed", !.fn = "parseTimeStringToJST",
                            !.out = parseTimeStringToJST(parse.text, Timeline[now])]
  /\ UNCHANGED << now, parseFrame >>

\* a call of parseTimeStringWithDate(text) (dateString absent)
ParseWithDate ==
  /\ parse.pc = "input"
  /\ parse' = [parse EXCEPT !.pc = "parsed", !.fn = "parseTimeStringWithDate",
                            !.out = parseTimeStringWithDate(parse.text, Timeline[now])]
  /\ UNCHANGED << now, parseFrame >>

\* formatDateToJST of the instant the parser returned
FormatParsed ==
  /\ parse.pc = "parsed"
  /\ parse.out # Null
  /\ parse' = [parse EXCEPT !.pc = "shown", !.shown = formatDateToJST(parse.out)]
  /\ UNCHANGED << now, parseFrame >>

InitParse ==
  /\ now \in 1..Len(Timeline)
  /\ sheets = [m \in Months |-> NoSheet]
  /\ configured = TRUE
  /\ cmd = [p \in Procs |-> Idle]
  /\ ack = [p \in Procs |-> "none"]
  /\ msgs = [p \in Procs |-> <<>>]
  /\ waits = [p \in Procs |-> <<>>]
  /\ faults = 0
  /\ limits = [cmds |-> MaxCmds, faults |-> MaxFaults]
  /\ kv = [k \in Users \X Channels |-> NoRecord]
  /\ api = ApiIdle
  /\ \E s \in TimeTexts : parse = [ParseIdle EXCEPT !.pc = "input", !.text = s]
  /\ adm = AdmIdle

NextParse ==
  \/ ParseToJST
  \/ ParseWithDate
  \/ FormatParsed

SpecParse == InitParse /\ [][NextParse]_vars

(***************************************************************************)
(* /setup and /reset: the handlers change the guild's server configuration *)
(* (the variable configured).  /setup hands out an OAuth link, and the     *)
(* callback of that link stores the configuration.  The report of each     *)
(* handler is folded into its last step.                                   *)
(***************************************************************************)
ADMINISTRATOR == 8
MANAGE_GUILD == 32

\* member.permissions values tried: none, one that is neither of the two
\* bits, and each of the two
PermissionInputs == { 0, 1, ADMINISTRATOR, MANAGE_GUILD }

\* (permissions & bit) === bit
HasBit(permissions, bit) == (permissions \div bit) % 2 = 1

\* checkAdminPermissions(member, userId, guildId)
checkAdminPermissions(permissions, roles, sameId) ==
  IF sameId THEN TRUE
  ELSE IF HasBit(permissions, ADMINISTRATOR) \/ HasBit(permissions, MANAGE_GUILD) THEN TRUE
  ELSE IF roles THEN TRUE
  ELSE TRUE

admFrame == << now, sheets, cmd, ack, msgs, waits, faults, limits, kv, api, parse >>

AdmDone(result) == [adm EXCEPT !.pc = "done", !.result = result]

\* a /setup or /reset interaction of a guild: member is interaction.member
\* being there, roles its roles array, sameId is user.id === guild_id
AdminInteraction(kind, member, roles, permissions, sameId) ==
  /\ adm.pc \in {"idle", "done"}
  /\ roles => member
  /\ adm' = [AdmIdle EXCEPT !.pc = kind, !.kind = kind, !.member = member, !.roles = roles,
                            !.permissions = permissions, !.owner = sameId,
                            !.hadConfig = configured]
  /\ UNCHANGED << configured, admFrame >>

\* handleSetupCommand: the member and administrator checks
SetupCheck ==
  /\ adm.pc = "setup"
  /\ adm' = IF ~adm.member THEN AdmDone("NoMember")
            ELSE IF ~checkAdminPermissions(adm.permissions, adm.roles, adm.owner)
              THEN AdmDone("AdminRequired")
            ELSE [adm EXCEPT !.pc = "setup_config"]
  /\ UNCHANGED << configured, admFrame >>

\* handleSetupCommand: hasServerConfig
SetupConfig ==
  /\ adm.pc = "setup_config"
  /\ adm' = IF configured THEN AdmDone("AlreadyConfigured")
            ELSE [adm EXCEPT !.pc = "setup_url"]
  /\ UNCHANGED << configured, admFrame >>

\* handleSetupCommand: generateAuthUrl and the message with the link
SetupUrl ==
  /\ adm.pc = "setup_url"
  /\ adm' = [AdmDone("LinkIssued") EXCEPT !.link = TRUE]
  /\ UNCHANGED << configured, admFrame >>

\* GET /oauth/callback for the link handed out: the configuration is stored
OAuthCallback ==
  /\ adm.link
  /\ configured' = TRUE
  /\ adm' = [adm EXCEPT !.link = FALSE]
  /\ UNCHANGED admFrame

\* handleResetCommand: the member check
ResetCheck ==
  /\ adm.pc = "reset"
  /\ adm' = IF ~adm.member \/ ~adm.roles THEN AdmDone("NoMember")
            ELSE [adm EXCEPT !.pc = "reset_config"]
  /\ UNCHANGED << configured, admFrame >>

\* handleResetCommand: hasServerConfig
ResetConfig ==
  /\ adm.pc = "reset_config"
  /\ adm' = IF ~configured THEN AdmDone("NotConfigured")
            ELSE [adm EXCEPT !.pc = "reset_revoke"]
  /\ UNCHANGED << configured, admFrame >>

\* handleResetCommand: getServerConfig and revokeToken, whose failure is only
\* logged
ResetRevoke ==
  /\ adm.pc = "reset_revoke"
  /\ adm' = [adm EXCEPT !.pc = "reset_delete"]
  /\ UNCHANGED << configured, admFrame >>

\* handleResetCommand: deleteServerConfig and the completion message
ResetDelete ==
  /\ adm.pc = "reset_delete"
  /\ configured' = FALSE
  /\ adm' = AdmDone("ResetDone")
  /\ UNCHANGED admFrame

InitAdmin ==
  /\ now = 1
  /\ sheets = [m \in Months |-> NoSheet]
  /\ configured \in BOOLEAN
  /\ cmd = [p \in Procs |-> Idle]
  /\ ack = [p \in Procs |-> "none"]
  /\ msgs = [p \in Procs |-> <<>>]
  /\ waits = [p \in Procs |-> <<>>]
  /\ faults = 0
  /\ limits = [cmds |-> MaxCmds, faults |-> MaxFaults]
  /\ kv = [k \in Users \X Channels |-> NoRecord]
  /\ api = ApiIdle
  /\ parse = ParseIdle
  /\ adm = AdmIdle

NextAdmin ==
  \/ \E kind \in {"setup", "reset"}, member, roles, sameId \in BOOLEAN,
        permissions \in PermissionInputs :
       AdminInteraction(kind, member, roles, permissions, sameId)
  \/ SetupCheck
  \/ SetupConfig
  \/ SetupUrl
  \/ OAuthCallback
  \/ ResetCheck
  \/ ResetConfig
  \/ ResetRevoke
  \/ ResetDelete

SpecAdmin == InitAdmin /\ [][NextAdmin]_vars

(***************************************************************************)
(* Vocabulary of the properties                                            *)
(***************************************************************************)
Key(p) == << cmd[p].user, cmd[p].channel >>

Done(p) == cmd[p].pc = "done"

\* the cells of the ledger that hold a row, as << month, row number >>
Ledger == UNION { { << m, i >> : i \in 1..Len(sheets[m].rows) } : m \in Months }

RowAt(r) == sheets[r[1]].rows[r[2]]

\* rows of a key with a start time and an empty end time
OpenRowsOf(u, c) ==
  { r \in Ledger : /\ RowAt(r).G = u /\ RowAt(r).F = c
                   /\ RowAt(r).D >= 0 /\ RowAt(r).E = EmptyCell }

\* those among them whose start lies within the last 24 hours
FreshOpenRowsOf(u, c) ==
  { r \in OpenRowsOf(u, c) :
      Clock - parseDateTimeFromJST(RowAt(r).D) <= HorizonHours * HourSec }

\* the start instant recorded for the session a start command asked for
RecordedStart(p) == parseDateTimeFromJST(formatDateTimeToJST(cmd[p].t))

\* the rows appended by the attempts of command p
RowsAppendedBy(p) == { r \in Ledger : RowAt(r).H \div 10 = p }

NoFaultIn(p) == ~cmd[p].hit

(***************************************************************************)
(* Mutual exclusion                                                        *)
(***************************************************************************)
\* C1: after a /start of a key succeeded, a later /start of the same key that
\* runs within 24 hours of the recorded start, with no close in between and
\* no failed call, is answered AlreadyOpen.
C1_NextOpenBlocked ==
  \A p, q \in Procs :
    ( /\ p < q /\ cmd[q].seq
      /\ cmd[p].kind = "start" /\ cmd[p].result = "Success"
      /\ cmd[q].kind = "start" /\ Done(q) /\ cmd[q].time = <<>>
      /\ Key(p) = Key(q)
      /\ NoFaultIn(p) /\ NoFaultIn(q)
      /\ Timeline[cmd[q].doneAt] - RecordedStart(p) <= HorizonHours * HourSec )
    => cmd[q].result = "AlreadyOpen"

\* C2: two /start commands of the same key that run concurrently never both
\* succeed.
C2_ConcurrentOpensExclusive ==
  \A p, q \in Procs :
    ( /\ p < q /\ ~cmd[q].seq
      /\ cmd[p].kind = "start" /\ cmd[q].kind = "start"
      /\ Key(p) = Key(q)
      /\ NoFaultIn(p) /\ NoFaultIn(q) )
    => ~(cmd[p].result = "Success" /\ cmd[q].result = "Success")

\* C3: in every state each (user, channel) has at most one open session, a
\* row with a start time within the last 24 hours and an empty end time.
C3_AtMostOneOpenSession ==
  \A u \in Users, c \in Channels : Cardinality(FreshOpenRowsOf(u, c)) <= 1

(***************************************************************************)
(* Closing                                                                 *)
(***************************************************************************)
\* every row of a key, open or closed
RowsOfKey(u, c) == { r \in Ledger : RowAt(r).G = u /\ RowAt(r).F = c }

\* the command went past its time parsing and configuration checks
RanTransition(p) == cmd[p].result \notin {"ParseError", "FutureTimeRejected", "ConfigurationMissing"}

\* C4: a /end for a key of which the ledger holds no row (no open of the key
\* was ever committed) never succeeds and writes nothing, and when none of
\* its calls fails it is answered NotOpen.
C4_CloseWithoutOpen ==
  \A q \in Procs :
    ( /\ cmd[q].kind = "end" /\ Done(q) /\ RanTransition(q)
      /\ RowsOfKey(cmd[q].user, cmd[q].channel) = {} )
    => /\ cmd[q].result # "Success"
       /\ cmd[q].writes = 0
       /\ NoFaultIn(q) => cmd[q].result = "NotOpen"

\* a /end answered NotOpen while another user's session is open in the channel
C4_Witness ==
  \E q \in Procs :
    /\ cmd[q].kind = "end" /\ cmd[q].result = "NotOpen" /\ NoFaultIn(q)
    /\ RowsOfKey(cmd[q].user, cmd[q].channel) = {}
    /\ \E u \in Users : OpenRowsOf(u, cmd[q].channel) # {}

\* C5: every closed row has its end no earlier than its start, and a /end
\* whose instant is earlier than the start of the session it found is, when
\* none of its calls fails, answered EndBeforeStart and writes nothing.
C5_EndNotBeforeStart ==
  /\ \A r \in Ledger :
       (RowAt(r).D >= 0 /\ RowAt(r).E >= 0)
         => parseDateTimeFromJST(RowAt(r).E) >= parseDateTimeFromJST(RowAt(r).D)
  /\ \A q \in Procs :
       ( /\ cmd[q].kind = "end" /\ Done(q) /\ cmd[q].astart >= 0
         /\ cmd[q].t < parseDateTimeFromJST(cmd[q].astart) /\ NoFaultIn(q) )
       => cmd[q].result = "EndBeforeStart" /\ cmd[q].writes = 0

\* a /end rejected because its instant precedes the start of the open session
C5_Witness ==
  \E q \in Procs :
    /\ cmd[q].kind = "end" /\ cmd[q].result = "EndBeforeStart" /\ NoFaultIn(q)
    /\ cmd[q].t < parseDateTimeFromJST(cmd[q].astart)
    /\ OpenRowsOf(cmd[q].user, cmd[q].channel) # {}

(***************************************************************************)
(* Retry coordinator                                                       *)
(***************************************************************************)
NonRetryable ==
  {"ParseError", "FutureTimeRejected", "AlreadyOpen", "NotOpen", "EndBeforeStart",
   "ConfigurationMissing"}

\* every attempt the command made ended in a failed Sheets call
EveryAttemptFailedInBackend(p) == cmd[p].sfail = cmd[p].attempt

\* C6: the attempts of one /start leave at most one row in the ledger.
C6_OneRowPerOpen ==
  \A p \in Procs : cmd[p].kind = "start" => Cardinality(RowsAppendedBy(p)) <= 1

\* C7: once an attempt has classified one of the non-retryable errors the
\* handler only reports it: it never goes to the backoff or to another
\* attempt with that error pending.
C7_NonRetryableReportedOnce ==
  \A p \in Procs : cmd[p].rep \in NonRetryable => cmd[p].pc = "report"

\* C8: a /start of which every attempt failed in a Sheets call has made 3
\* attempts, slept 1000 ms then 2000 ms, and reported
\* TransientFailureExhausted.
C8_ThreeAttemptsThenExhausted ==
  \A p \in Procs :
    (cmd[p].kind = "start" /\ Done(p) /\ EveryAttemptFailedInBackend(p))
    => /\ cmd[p].attempt = maxRetries
       /\ waits[p] = << BackoffBaseMs, 2 * BackoffBaseMs >>
       /\ cmd[p].result = "TransientFailureExhausted"

\* C9: a failed Sheets call in an attempt before the third, the open-session
\* lookup included, is never reported at once as a terminal error.
C9_LookupFailureRetried ==
  \A p \in Procs :
    (cmd[p].pc = "report" /\ cmd[p].rep = "CheckFailed") => cmd[p].attempt = maxRetries

(***************************************************************************)
(* Acknowledgment                                                          *)
(***************************************************************************)
\* C10: a finished command has resolved its deferred response exactly once:
\* a success shows exactly one channel-visible message, a failure exactly one
\* message visible to the caller only.
C10_ExactlyOneResolution ==
  \A p \in Procs :
    Done(p) =>
      /\ Len(msgs[p]) = 1
      /\ cmd[p].result = "Success" => (ack[p] = "edited" /\ msgs[p][1].vis = "public")
      /\ cmd[p].result # "Success" => (ack[p] = "deleted" /\ msgs[p][1].vis = "ephemeral")

(***************************************************************************)
(* Session rows                                                            *)
(***************************************************************************)
\* C11: the end-time cell of a row is written only while it is empty: a row
\* that has been closed is never written again, concurrent /end included.
C11_ClosedOnce ==
  [][ \A p \in Procs :
        (cmd[p].pc = "end_write" /\ cmd'[p].pc = "end_read")
          => sheets[cmd[p].month].rows[cmd[p].row].E = EmptyCell ]_vars

C13_NoStoreWithoutRow ==
  \A k \in Users \X Channels :
    kv[k] # NoRecord =>
      \E r \in Ledger : RowAt(r).H = kv[k].uuid /\ RowAt(r).G = k[1]

\* an attempt of an open whose append failed is in its backoff, having put
\* nothing in the store
C13_Witness ==
  \E p \in Procs :
    /\ cmd[p].kind = "start" /\ cmd[p].pc = "backoff"
    /\ cmd[p].rid # 0 /\ cmd[p].sfail > 0
    /\ RowsAppendedBy(p) = {}
    /\ kv[kvKey(p)] = NoRecord


\* C14: when a close reports success, the store holds no record of the
\* session it closed, and the end-time cell of the row it closed is filled.
C14_ClosedNotInStore ==
  [][ \A q \in Procs :
        (cmd[q].kind = "end" /\ cmd[q].pc = "edit" /\ cmd'[q].result = "Success")
          => /\ kv'[kvKey(q)].uuid # cmd[q].rid
             /\ sheets'[cmd[q].month].rows[cmd[q].row].E # EmptyCell ]_vars

\* a close of a session an earlier open recorded has reported success
C14_Witness ==
  \E q \in Procs :
    /\ cmd[q].kind = "end" /\ cmd[q].result = "Success"
    /\ kv[kvKey(q)] = NoRecord
    /\ \E r \in Ledger : RowAt(r).G = cmd[q].user /\ RowAt(r).E # EmptyCell


\* C15: when the transition of an attempt succeeded (the handler is at its
\* success report), the command's next step is that report and its end: the
\* attempt counter does not move and no backoff is slept.
C15_SuccessReportedAtOnce ==
  [][ \A p \in Procs :
        (cmd[p].pc = "edit" /\ cmd'[p] # cmd[p])
          => /\ cmd'[p].pc = "done" /\ cmd'[p].result = "Success"
             /\ cmd'[p].attempt = cmd[p].attempt
             /\ waits'[p] = waits[p] ]_vars


\* the handler positions at which a call to the Sheets API or to the session
\* records in KV is made
AccessPcs ==
  {"chk_info", "chk_range", "rec_info", "rec_addsheet", "rec_header", "rec_append",
   "rec_find", "rec_formula", "look_info", "look_range", "end_find", "end_write",
   "end_read", "kv_get", "kv_put", "kv_look", "kv_del"}

ExplicitStart(p) == parseTimeStringToJST(cmd[p].time, Clock)

\* C17: an attempt of an open whose explicit start instant is later than the
\* clock goes straight from the time handling to the FutureTimeRejected
\* report, the steps of that report touch neither the ledger nor the store,
\* and when no call of the command fails it ends there, in its first attempt,
\* having written nothing.
C17_FutureStartRejected ==
  [][ \A p \in Procs :
        /\ ( /\ cmd[p].kind = "start" /\ cmd[p].pc = "begin" /\ cmd'[p] # cmd[p]
             /\ cmd[p].time # <<>> /\ ExplicitStart(p) # Null
             /\ ExplicitStart(p) > Clock )
             => cmd'[p].pc = "report" /\ cmd'[p].rep = "FutureTimeRejected"
        /\ ( /\ cmd[p].pc = "report" /\ cmd[p].rep = "FutureTimeRejected"
             /\ cmd'[p] # cmd[p] )
             => /\ sheets' = sheets /\ kv' = kv
                /\ cmd'[p].pc \in {"done", "backoff", "final"}
                /\ NoFaultIn(p)' =>
                     /\ cmd'[p].result = "FutureTimeRejected"
                     /\ cmd'[p].attempt = 1 /\ cmd'[p].writes = 0 ]_vars

\* an open with a start time still ahead of the clock has been answered
\* FutureTimeRejected, and the ledger holds nothing of it
C17_Witness ==
  \E p \in Procs :
    /\ cmd[p].kind = "start" /\ cmd[p].result = "FutureTimeRejected" /\ NoFaultIn(p)
    /\ msgs[p] = << Message("ephemeral", "FutureTimeRejected") >>
    /\ RowsAppendedBy(p) = {}
    /\ parseTimeStringToJST(cmd[p].time, Timeline[cmd[p].doneAt]) > Timeline[cmd[p].doneAt]


\* C18: in a guild without configuration no command makes a step that reads
\* or writes the session store or the ledger, and a command whose time text
\* is acceptable and none of whose calls fails ends with ConfigurationMissing.
C18_ConfigurationCheckedFirst ==
  [][ \A p \in Procs :
        (~configured /\ cmd'[p] # cmd[p])
          => /\ cmd[p].pc \notin AccessPcs
             /\ (cmd'[p].pc = "done" /\ NoFaultIn(p)')
                  => cmd'[p].result \in
                       {"ConfigurationMissing", "ParseError", "FutureTimeRejected"} ]_vars


\* C19: a call answered 401 is followed by a refresh of the credentials; a
\* refresh that succeeded is followed by the same call once more, in the same
\* attempt of the retry loop; no call is fetched more than twice in one
\* attempt; and an accepted answer, first or second, is returned as a success
\* of that attempt.
C19_RefreshAndRetryOnce ==
  [][ /\ (api.pc = "respond" /\ api.status = "unauthorized") => api'.pc = "refresh"
      /\ (api.pc = "refresh" /\ api.refreshOk /\ api.retryCount = 0)
           => /\ api'.pc = "fetch" /\ api'.retryCount = 1
              /\ api'.site = api.site /\ api'.attempt = api.attempt
      /\ api'.fetches <= 2
      /\ (api.pc = "respond" /\ api.status = "ok")
           => api'.pc = "returned" /\ api'.attempt = api.attempt ]_vars


\* C20: whenever an open appends its session row, the sheet of the month
\* exists and its first row is the header.
C20_HeaderBeforeRows ==
  [][ \A p \in Procs :
        (cmd[p].pc = "rec_append" /\ cmd'[p].writes = cmd[p].writes + 1)
          => /\ sheets[cmd[p].month].exists
             /\ Len(sheets[cmd[p].month].rows) >= 1
             /\ sheets[cmd[p].month].rows[1] = KINTAI_HEADERS ]_vars


\* C21: an /end without the todo note never enters the retry loop (its
\* attempt counter stays 0 and it sleeps no backoff), writes nothing, is only
\* ever at the validation report or past it, and, when none of its Discord
\* calls fails, ends with the validation error as its only message.
C21_TodoRequired ==
  \A p \in Procs :
    (cmd[p].kind = "end" /\ cmd[p].todo = "")
      => /\ cmd[p].attempt = 0 /\ waits[p] = <<>> /\ cmd[p].writes = 0
         /\ cmd[p].pc \in {"todo_report", "outer", "done"}
         /\ (Done(p) /\ NoFaultIn(p))
              => /\ cmd[p].result = "ValidationError"
                 /\ msgs[p] = << Message("ephemeral", "ValidationError") >>

\* an /end without todo was refused while the session of its key was open
C21_Witness ==
  \E p \in Procs :
    /\ cmd[p].kind = "end" /\ cmd[p].todo = "" /\ cmd[p].result = "ValidationError"
    /\ OpenRowsOf(cmd[p].user, cmd[p].channel) # {}


\* the start time the AlreadyOpen report of p prints: the startTime the
\* open-session check handed to the handler, EmptyCell when the text has none
ShownStart(p) == cmd[p].astart

\* C22: when the AlreadyOpen report of an open is delivered, it shows a start
\* time, and that is the start time in the ledger row of a session of the key.
C22_AlreadyOpenShowsStart ==
  [][ \A p \in Procs :
        ( /\ cmd[p].pc = "report" /\ cmd[p].rep = "AlreadyOpen"
          /\ Len(msgs'[p]) > Len(msgs[p]) )
          => /\ ShownStart(p) # EmptyCell
             /\ \E r \in RowsOfKey(cmd[p].user, cmd[p].channel) :
                  RowAt(r).D = ShownStart(p) ]_vars


\* C23: no step removes a sheet or a row: every sheet stays, no sheet gets
\* shorter, and every row keeps its place, its uuid, its key and its start.
C23_LedgerOnlyGrows ==
  [][ \A m \in Months :
        sheets[m].exists =>
          /\ sheets'[m].exists
          /\ Len(sheets'[m].rows) >= Len(sheets[m].rows)
          /\ \A i \in 1..Len(sheets[m].rows) :
               /\ sheets'[m].rows[i].H = sheets[m].rows[i].H
               /\ sheets'[m].rows[i].G = sheets[m].rows[i].G
               /\ sheets'[m].rows[i].F = sheets[m].rows[i].F
               /\ sheets'[m].rows[i].D = sheets[m].rows[i].D ]_vars

\* an open was retried after its row was appended and a close has written an
\* end time, and the ledger still holds the rows
C23_Witness ==
  \E p, q \in Procs :
    /\ cmd[p].kind = "start" /\ cmd[p].attempt > 1 /\ RowsAppendedBy(p) # {}
    /\ cmd[q].kind = "end" /\ cmd[q].result = "Success"
    /\ \E r \in Ledger : RowAt(r).H # 0 /\ RowAt(r).E # EmptyCell


\* the value the sheet shows in the duration cell of a closed row, from its
\* formula HOUR(E - D) & MINUTE(E - D): the hour and the minute of the time
\* of day of the difference
FormulaDuration(D, E) ==
  LET secs == (E - D) * MinuteSec
  IN [hours |-> (secs % DaySec) \div HourSec, minutes |-> (secs % HourSec) \div MinuteSec]

\* the difference of two recorded instants in whole hours and minutes
ElapsedDuration(D, E) ==
  LET secs == (E - D) * MinuteSec
  IN [hours |-> secs \div HourSec, minutes |-> (secs % HourSec) \div MinuteSec]

\* C24: for every closed session row the end is not before the start and the
\* duration its sheet formula yields (the value /end reads back and reports)
\* is the elapsed time between the two in whole hours and minutes.
C24_DurationMatches ==
  \A r \in Ledger :
    (RowAt(r).H # 0 /\ RowAt(r).D >= 0 /\ RowAt(r).E # EmptyCell)
      => /\ RowAt(r).E >= RowAt(r).D
         /\ FormulaDuration(RowAt(r).D, RowAt(r).E) = ElapsedDuration(RowAt(r).D, RowAt(r).E)


\* C25: no Sheets call is awaited for longer than the 10-second timeout.
C25_CallsTimeOut ==
  api.pc = "waiting" => api.waited * MsPerSec <= timeout


\* C26: a command that ended with the success report has its placeholder
\* edited, not deleted, and the channel-visible success text is all it
\* showed; a command that ended with an error report has its placeholder
\* deleted and showed exactly one message, the caller-only error; and a
\* command none of whose calls failed ended in one of these two ways.
C26_EditOnSuccessReplaceOnFailure ==
  \A p \in Procs :
    Done(p) =>
      /\ cmd[p].result = "Success"
           => ack[p] = "edited" /\ msgs[p] = << Message("public", "Success") >>
      /\ cmd[p].result \notin {"Success", "Unhandled"}
           => ack[p] = "deleted" /\ msgs[p] = << Message("ephemeral", cmd[p].result) >>
      /\ NoFaultIn(p) => cmd[p].result # "Unhandled"

\* one command ended with the success report and another with the report
\* that its attempts are exhausted
C26_Witness ==
  \E p, q \in Procs :
    /\ cmd[p].result = "Success" /\ ack[p] = "edited"
    /\ cmd[q].result = "TransientFailureExhausted" /\ ack[q] = "deleted"
    /\ cmd[q].attempt = maxRetries


(***************************************************************************)
(* Time texts                                                              *)
(***************************************************************************)
AllDigits(s) == \A i \in 1..Len(s) : IsDigit(s[i])

\* the text is digits in one of the shapes HH:MM, H:MM, HHMM, HMM
ClockForm(s) ==
  \/ Len(s) \in {3, 4} /\ AllDigits(s)
  \/ /\ Len(s) \in {4, 5}
     /\ s[Len(s) - 2] = ":"
     /\ AllDigits(SubSeq(s, 1, Len(s) - 3))
     /\ AllDigits(SubSeq(s, Len(s) - 1, Len(s)))

\* the hour and the minute such a text names
ClockHour(s) ==
  IF s[Len(s) - 2] = ":" THEN DigitsValue(SubSeq(s, 1, Len(s) - 3), 0)
  ELSE DigitsValue(SubSeq(s, 1, Len(s) - 2), 0)
ClockMinute(s) == DigitsValue(SubSeq(s, Len(s) - 1, Len(s)), 0)

ValidClockText(s) == ClockForm(s) /\ ClockHour(s) <= 23 /\ ClockMinute(s) <= 59

\* C27: a parser applied to a non-empty text returns an instant when the
\* text is HH:MM, HHMM or HMM (H:MM counted with them) with an hour of 0-23
\* and a minute of 0-59, and returns null for every other text.
C27_ParserAcceptsExactlyClockTexts ==
  (parse.pc \in {"parsed", "shown"} /\ parse.text # <<>>)
    => (parse.out # Null <=> ValidClockText(parse.text))

\* C28: the JST wall-clock text formatted from the instant parsed from a
\* valid HH:MM, HHMM or HMM text shows the hour and the minute of that text.
C28_ParseFormatRoundTrip ==
  (parse.pc = "shown" /\ ValidClockText(parse.text))
    => /\ DigitsValue(SubSeq(parse.shown.time, 1, 2), 0) = ClockHour(parse.text)
       /\ DigitsValue(SubSeq(parse.shown.time, 4, 5), 0) = ClockMinute(parse.text)
       /\ parse.shown.time[3] = ":"

\* 23:59 was parsed by parseTimeStringWithDate and formatted
C28_Witness ==
  /\ parse.pc = "shown"
  /\ parse.fn = "parseTimeStringWithDate"
  /\ parse.text = << "2", "3", ":", "5", "9" >>
  /\ SubSeq(parse.shown.time, 1, 5) = parse.text


(***************************************************************************)
(* Administration                                                          *)
(***************************************************************************)
\* the member of the interaction holds the administrator or the
\* manage-server permission
HoldsAdminRights ==
  adm.member /\ (HasBit(adm.permissions, ADMINISTRATOR) \/ HasBit(adm.permissions, MANAGE_GUILD))

\* C29: a /setup or /reset of a member without administrator rights hands
\* out no link, reports no reset, and leaves the configuration as it was
\* when the command arrived.
C29_OnlyAdministratorsConfigure ==
  (adm.pc # "idle" /\ ~HoldsAdminRights)
    => /\ configured = adm.hadConfig
       /\ ~adm.link
       /\ adm.result \notin {"LinkIssued", "ResetDone"}


(***************************************************************************)
(* Retried opens                                                           *)
(***************************************************************************)
\* rows the command appended in an attempt before its current one
RowsOfEarlierAttempts(p) ==
  { r \in RowsAppendedBy(p) : RowAt(r).H % 10 < cmd[p].attempt }

\* C30: while the row an earlier attempt of a /start appended is open, the
\* command appends no second row, and when it is finished with that row
\* still open it has reported AlreadyOpen.
C30_RetryObservesConflict ==
  \A p \in Procs :
    (/\ cmd[p].kind = "start"
     /\ \E r \in RowsOfEarlierAttempts(p) : RowAt(r).E = EmptyCell)
    => /\ Cardinality(RowsAppendedBy(p)) = 1
       /\ Done(p) => cmd[p].result \in {"AlreadyOpen", "Unhandled"}


(***************************************************************************)
(* Isolation of keys                                                       *)
(***************************************************************************)
\* C31: a step that changes a cell of a ledger row is a step of a command
\* whose key (user, channel) is the key of that row.
C31_KeyIsolation ==
  [][\A m \in Months : \A i \in 1..Len(sheets[m].rows) :
       (i <= Len(sheets'[m].rows) /\ sheets'[m].rows[i] # sheets[m].rows[i])
         => \E p \in Procs : /\ cmd'[p] # cmd[p]
                             /\ sheets[m].rows[i].G = cmd[p].user
                             /\ sheets[m].rows[i].F = cmd[p].channel]_vars


(***************************************************************************)
(* Closability                                                             *)
(***************************************************************************)
\* q is a /start that reported success and p a later /end of the same key,
\* issued while no other command was in flight
ClosesSessionOf(p, q) ==
  /\ cmd[q].kind = "start" /\ cmd[q].result = "Success"
  /\ cmd[p].kind = "end" /\ q < p /\ cmd[p].seq
  /\ Key(p) = Key(q)

\* C32: a /end of a key whose /start succeeded and was not closed since, none
\* of whose calls failed, is not answered NotOpen and does not exhaust its
\* attempts, however far the clock moved between the two commands.
C32_OpenSessionStaysClosable ==
  \A p, q \in Procs :
    (ClosesSessionOf(p, q) /\ Done(p) /\ NoFaultIn(p))
      => cmd[p].result \notin {"NotOpen", "TransientFailureExhausted", "ProcessingError", "Unhandled"}


\* C33: when a /end reported success, the row that the last successful
\* /start of its key appended is closed.
C33_CloseTakesLatestOpen ==
  \A p, q \in Procs :
    (ClosesSessionOf(p, q) /\ cmd[p].result = "Success")
      => \A r \in RowsAppendedBy(q) : RowAt(r).E # EmptyCell


(***************************************************************************)
(* Reports and the ledger                                                  *)
(***************************************************************************)
\* C34: a finished /end of which an attempt wrote the end time into the row
\* has reported success.
C34_CloseReportAgreesWithLedger ==
  \A p \in Procs :
    (cmd[p].kind = "end" /\ Done(p) /\ cmd[p].writes > 0) => cmd[p].result = "Success"


\* C35: when no command is in flight, a key has a record in KV exactly when
\* the ledger holds an open row of the key, and that row carries the uuid of
\* the record.
C35_KvMirrorsLedger ==
  (\A p \in Procs : cmd[p].pc \in {"idle", "done"})
    => \A k \in Users \X Channels :
         /\ kv[k] # NoRecord
              => \E r \in OpenRowsOf(k[1], k[2]) : RowAt(r).H = kv[k].uuid
         /\ \A r \in OpenRowsOf(k[1], k[2]) : kv[k].uuid = RowAt(r).H


(***************************************************************************)
(* Check before append                                                     *)
(***************************************************************************)
\* C36: a step in which a /start appends a row to the ledger belongs to an
\* attempt whose own open-session check returned without an error and found
\* no active session.
C36_AppendOnlyAfterOwnCheck ==
  [][\A p \in Procs :
       Cardinality(RowsAppendedBy(p)') > Cardinality(RowsAppendedBy(p))
         => cmd[p].chk = cmd[p].attempt /\ cmd[p].attempt > 0]_vars

\* a /start whose first attempt failed after its check has appended its row
\* in the second attempt
C36_Witness ==
  \E p \in Procs :
    /\ cmd[p].kind = "start" /\ cmd[p].attempt = 2 /\ cmd[p].chk = 2
    /\ cmd[p].pc = "rec_find"
    /\ RowsAppendedBy(p) # {}


(***************************************************************************)
(* End before start                                                        *)
(***************************************************************************)
\* C37: a /end answered EndBeforeStart asked for an instant strictly earlier
\* than the instant the start cell of the session it found stands for.
C37_EndBeforeStartOnlyWhenEarlier ==
  \A p \in Procs :
    (cmd[p].kind = "end" /\ cmd[p].result = "EndBeforeStart")
      => cmd[p].t < parseDateTimeFromJST(cmd[p].astart)


(***************************************************************************)
(* Termination of the retry loop                                           *)
(***************************************************************************)
\* one step of the handler that waitUntil runs for command p
HandlerStep(p) ==
  \/ StartAttempt(p) \/ CheckInfo(p) \/ CheckScan(p) \/ RecordStartInfo(p)
  \/ CreateMonthlySheet(p) \/ AppendHeader(p) \/ AppendStartRow(p)
  \/ FindStartRow(p) \/ SetFormula(p) \/ EditDeferred(p) \/ ReportError(p)
  \/ Backoff(p) \/ FinalReport(p) \/ OuterCatch(p) \/ EndAttempt(p)
  \/ LookupInfo(p) \/ LookupScan(p) \/ FindEndRow(p) \/ WriteEndTime(p)
  \/ ReadWorkHours(p)

\* one command in a guild whose January sheet holds an open row of u1 in c1,
\* with enough failing calls for every attempt, the failure report and the
\* report of handleSlashCommandDeferred to fail
InitSingle ==
  /\ now = 1
  /\ sheets = [m \in Months |->
                 IF m = CurrentMonth(Timeline[1])
                   THEN [exists |-> TRUE, rows |-> << KINTAI_HEADERS, EarlierOpenRow >>]
                   ELSE NoSheet]
  /\ configured = TRUE
  /\ cmd = [p \in Procs |-> Idle]
  /\ ack = [p \in Procs |-> "none"]
  /\ msgs = [p \in Procs |-> <<>>]
  /\ waits = [p \in Procs |-> <<>>]
  /\ faults = 0
  /\ limits = [cmds |-> 1, faults |-> maxRetries + 2]
  /\ kv = [k \in Users \X Channels |-> NoRecord]
  /\ api = ApiIdle
  /\ parse = ParseIdle
  /\ adm = AdmIdle

\* the runtime runs a scheduled handler whenever its next step is possible:
\* each call returns or fails, each sleep ends
SpecSingleFair ==
  InitSingle /\ [][Next]_vars /\ \A p \in Procs : WF_vars(HandlerStep(p))

\* the sleeps of a retry loop that used all its attempts, in milliseconds
BackoffSchedule == [a \in 1..(maxRetries - 1) |-> BackoffBaseMs * a]

RECURSIVE SumOf(_)
SumOf(s) == IF s = <<>> THEN 0 ELSE Head(s) + SumOf(Tail(s))

\* the handler of command p has been scheduled and has not returned
Running(p) == cmd[p].kind # "none" /\ ~Done(p)

\* C38: a /start or /end never begins a fourth attempt, sleeps at most twice
\* (1000 ms, then 2000 ms, 3000 ms at most together), and its handler
\* returns, whichever calls to the ledger or to Discord fail.
C38_BoundedRetryTerminates ==
  /\ [](\A p \in Procs :
          /\ cmd[p].attempt <= maxRetries
          /\ Len(waits[p]) <= maxRetries - 1
          /\ waits[p] = SubSeq(BackoffSchedule, 1, Len(waits[p]))
          /\ SumOf(waits[p]) <= 3 * BackoffBaseMs)
  /\ \A p \in Procs : Running(p) ~> Done(p)

\* a command whose three attempts all failed has slept twice and returned
C38_Witness ==
  \E p \in Procs :
    /\ Done(p) /\ cmd[p].attempt = maxRetries
    /\ cmd[p].sfail = maxRetries
    /\ waits[p] = BackoffSchedule
    /\ cmd[p].result \in {"TransientFailureExhausted", "ProcessingError", "Unhandled"}

====
